---- MODULE Spec2Model ----
(***************************************************************************)
(* The synchronization engine of nusm (src/src/nusm.ts, createNusmStore):  *)
(* hydration, the persistence write scheduler and the external event       *)
(* reconciler of one store instance, with its backend, its user and the    *)
(* clock as environment.  One action per handler or continuation; every    *)
(* `await` of the source is a point where other actions may interleave.    *)
(* Of options.devtools only the name, which may give the store id, is     *)
(* modelled; the events and snapshots of the devtools emitter, which touch *)
(* no state of the engine, are left out.                                   *)
(***************************************************************************)
EXTENDS Integers, Sequences, FiniteSets, TLC

(* ---------------------------- bounds ---------------------------------- *)
MaxUserChanges == 2
MaxEvents == 2
MaxExternalWrites == 1
MaxFaults == 1
MaxTicks == 3
MaxEchoChanges == 1
MaxEchoEvents == 1
MaxEchoTicks == 2
MaxNameLen == 2

(* ------------------------ program constants --------------------------- *)
RecentWriteWindowIndexMs == 1000
RecentWriteWindowDefaultMs == 500
DefaultWaitMs == 0

\* One clock tick of the model; a positive pacer wait is one tick long.
TickMs == RecentWriteWindowDefaultMs
PositiveWaitMs == 2 * TickMs

(* --------------------------- values ----------------------------------- *)
\* A string that is parsed (a store id, a display name) is the sequence of its
\* characters, one per class of character the parsing tells apart: a lowercase
\* and an uppercase letter, a digit, the hyphen, the underscore, a blank, and a
\* character outside [a-z0-9-_].
Chars == {"a", "A", "1", "-", "_", " ", "!"}
StoreId == <<"s">>
Slices == <<"a", "b">>
Fields == {"a", "b", "c"}
FlatInitialState == [a |-> 0, b |-> 0, c |-> 0]
\* new Store(adapter ? undefined : initialState): the container before hydration
Undefined == [undefined |-> TRUE]
\* an absent key (event.key undefined) and an absent backend value (null)
NoKey == <<>>
Null == <<>>
Some(v) == <<v>>

VARIABLES
    cfg,                 \* the options of createNusmStore, fixed at construction
    now,                 \* Date.now()
    storeState,          \* store.state
    ready,               \* the `ready` promise: "pending" | "resolved" | "rejected"
    isReady,
    suppressPersist,
    hydrationStatus,     \* [byKey, overall]
    hydPc,               \* position of hydrate() and of its .then callback
    hydIdx,              \* index of the slice whose getItem hydrateSlices awaits
    hydNext,             \* hydrateEntire's result / hydrateSlices' nextState
    queuedPayloads,      \* Map key -> entry, in insertion order
    recentWrites,        \* Map key -> timestamp
    pacerTimer,          \* deadline of the debouncer's timeout, -1 when none
    canLeadingExecute,   \* the debouncer's leading-edge latch
    writeLog,            \* every adapter.setItem call issued so far, in order
    inflightWrites,      \* indices of writeLog whose promise has not settled
    backend,             \* the adapter's storage: unit key -> Null | Some(value)
    pendingAdapterEvents,
    replayQueue,         \* the spliced events the replay loop still has to handle
    replayWaiting,       \* the replay loop awaits a handleAdapterEvent promise
    eventReads,          \* handleAdapterEvent calls suspended on adapter.getItem
    errorSink,           \* the arguments onError was called with, in order
    unhandledRejections, \* rejected promises nobody awaits
    budget,              \* what the environment has done so far
    hydReads,            \* history: what hydration's getItem of each unit returned
    engineAssigns,       \* history: number of applyState / applyExternalState calls
    lastHandled,         \* history: the last event handleAdapterEvent was called with
    replayLog,           \* history: start and end of each replayed event's handling
    readyCalls,          \* history: the calls of readyResolve and readyReject
    changes,             \* history: the entries user changes passed to enqueuePersist
    subscribed,          \* adapter.subscribe has been called with the listener
    landed               \* the unsettled setItem calls whose value the backend holds
vars == <<cfg, now, storeState, ready, isReady, suppressPersist, hydrationStatus,
          hydPc, hydIdx, hydNext, queuedPayloads, recentWrites, pacerTimer,
          canLeadingExecute, writeLog, inflightWrites, backend,
          pendingAdapterEvents, replayQueue, replayWaiting, eventReads,
          errorSink, unhandledRejections, budget, hydReads, engineAssigns,
          lastHandled, replayLog, readyCalls, changes, subscribed, landed>>

(* ------------------------- pure helpers ------------------------------- *)

\* the initialState argument of createNusmStore
InitialState == cfg.initialState

\* a key template that leaves the slice key out
defaultResolveKey_WithoutSliceKey(storeId, kind, sliceKey) ==
    IF kind = "entire"
    THEN <<"nusm", storeId, "entire">>
    ELSE <<"nusm", storeId, "slice">>

\* the template strings `nusm:${storeId}:entire` and
\* `nusm:${storeId}:slice:${sliceKey}`, as the sequence of their parts
defaultResolveKey(storeId, kind, sliceKey) ==
    IF kind = "entire"
    THEN <<"nusm", storeId, "entire">>
    ELSE <<"nusm", storeId, "slice", sliceKey>>

\* String.prototype.trim, toLowerCase, replace(/\s+/g, "-") and
\* replace(/[^a-z0-9-_]/g, "") on a sequence of characters
RECURSIVE trimStart(_)
trimStart(s) == IF s # <<>> /\ Head(s) = " " THEN trimStart(Tail(s)) ELSE s
RECURSIVE trimEnd(_)
trimEnd(s) ==
    IF s # <<>> /\ s[Len(s)] = " " THEN trimEnd(SubSeq(s, 1, Len(s) - 1)) ELSE s
trim(s) == trimEnd(trimStart(s))
toLowerCase(s) == [i \in DOMAIN s |-> IF s[i] = "A" THEN "a" ELSE s[i]]
RECURSIVE replaceWhitespace(_)
replaceWhitespace(s) ==
    IF s = <<>> THEN <<>>
    ELSE IF Head(s) # " " THEN <<Head(s)>> \o replaceWhitespace(Tail(s))
    ELSE <<"-">> \o replaceWhitespace(trimStart(s))
IsSlugChar(ch) == ch \in {"a", "1", "-", "_"}
removeInvalid(s) == SelectSeq(s, IsSlugChar)

\* options.devtools: absent, `true`, or an object with a name (possibly empty)
NoDevtools == [kind |-> "absent"]
DevtoolsFlag == [kind |-> "boolean"]
DevtoolsNamed(name) == [kind |-> "object", name |-> name]

\* resolveStoreId: Null for undefined, Some(id) for a string; "" and undefined
\* are both falsy
resolveStoreId(options) ==
    IF options.storeId # <<>> THEN Some(options.storeId)
    ELSE IF options.devtools.kind = "object" /\ options.devtools.name # <<>>
    THEN Some(removeInvalid(replaceWhitespace(toLowerCase(trim(options.devtools.name)))))
    ELSE Null

\* storeId ?? "nusm"
storeIdValue(options) ==
    IF resolveStoreId(options) = Null THEN <<"n", "u", "s", "m">>
    ELSE resolveStoreId(options)[1]

\* the check that throws only for an undefined id
configError_UndefinedOnly(options) ==
    options.adapter /\ resolveStoreId(options) = Null

\* `if (adapter && !storeId) throw new Error(...)`
configError(options) ==
    options.adapter /\ (resolveStoreId(options) = Null \/ resolveStoreId(options) = Some(<<>>))

\* resolveKey of the instance; the adapter supplies no resolveKey of its own.
resolveKey(kind, sliceKey) == defaultResolveKey(storeIdValue(cfg), kind, sliceKey)

\* the keys of hydrationStatus.byKey, in the order the units are created
UnitNames(strategy) == IF strategy = "entire" THEN <<"entire">> ELSE Slices

UnitKey(strategy, unit) ==
    IF strategy = "entire" THEN resolveKey("entire", "") ELSE resolveKey("slice", unit)

Range(f) == {f[x] : x \in DOMAIN f}

\* persistenceUnits: Map key -> {kind, sliceKey}
\* (the units are set in order; a key set twice keeps the later unit)
persistenceUnits ==
    IF ~cfg.adapter THEN <<>>
    ELSE [k \in {UnitKey(cfg.strategy, u) : u \in Range(UnitNames(cfg.strategy))} |->
            IF cfg.strategy = "entire"
            THEN [kind |-> "entire", sliceKey |-> ""]
            ELSE LET names == UnitNames(cfg.strategy)
                     last == CHOOSE i \in DOMAIN names :
                                /\ UnitKey(cfg.strategy, names[i]) = k
                                /\ \A j \in DOMAIN names :
                                      UnitKey(cfg.strategy, names[j]) = k => j <= i
                 IN [kind |-> "slice", sliceKey |-> names[last]]]

\* adapter?.name.toLowerCase().includes("index") ? 1000 : 500
recentWriteWindowMs ==
    IF cfg.adapter /\ cfg.name \in {"indexdb", "IndexedDB"}
    THEN RecentWriteWindowIndexMs
    ELSE RecentWriteWindowDefaultMs

\* slice.select / slice.apply of the configured slices: the slice keyed k is the
\* field k of the state; the reducer throws on the value 4.
\* select is state => state[k] (undefined, here -1, when the field is missing);
\* apply is (state, v) => ({...state, [k]: v}), and spreading undefined adds nothing.
select(k, state) == IF k \in DOMAIN state THEN state[k] ELSE -1
applyThrows(v) == v = 4
apply(k, state, v) ==
    [x \in (DOMAIN state \ {"undefined"}) \cup {k} |-> IF x = k THEN v ELSE state[x]]

\* What a persisted value is judged by: a slice value is a number, an entire
\* value is a (partial) state and is judged by its field a.
Tag(strategy, v) ==
    IF strategy = "entire" THEN (IF "a" \in DOMAIN v THEN v.a ELSE 0) ELSE v

Retag(strategy, v, t) ==
    IF strategy = "entire" THEN [x \in DOMAIN v \cup {"a"} |-> IF x = "a" THEN t ELSE v[x]]
    ELSE t

\* hydrateConfig.validate, as the caller wrote it.  "boolean": false for tag 2;
\* "structured": {ok:false} for tag 2, {ok:true, value: X} with tag 1 for tag 3,
\* {ok:true} (no value) otherwise.  Both throw for tag 4.
validateThrows(kind, strategy, v) == Tag(strategy, v) = 4
validate(kind, strategy, v) ==
    IF kind = "boolean"
    THEN [boolean |-> TRUE, ok |-> Tag(strategy, v) # 2, value |-> Null]
    ELSE [boolean |-> FALSE, ok |-> Tag(strategy, v) # 2,
          value |-> IF Tag(strategy, v) = 3 THEN Some(Retag(strategy, v, 1)) ELSE Null]

\* resolveValidateResult that drops the value a structured result carries
resolveValidateResult_IgnoresValue(validateResult, persisted) ==
    [ok |-> validateResult.ok, value |-> persisted]

\* resolveValidateResult: {ok, value: validateResult.value ?? persisted}
resolveValidateResult(validateResult, persisted) ==
    IF validateResult.boolean
    THEN [ok |-> validateResult.ok, value |-> persisted]
    ELSE [ok |-> validateResult.ok,
          value |-> IF validateResult.value # Null THEN validateResult.value[1]
                    ELSE persisted]

\* JavaScript values as trees, for the code that dispatches on the type of a
\* value: a primitive (number or null), an array of values, or a plain object.
JsonNull == [type |-> "null"]
Num(n) == [type |-> "number", n |-> n]
Arr(items) == [type |-> "array", items |-> items]
Obj(fields) == [type |-> "object", fields |-> fields]

isPrimitive(value) == value.type \in {"number", "null"}

\* a state whose fields hold numbers, as a tree and back
Json(state) == Obj([k \in DOMAIN state |-> Num(state[k])])
Plain(value) == [k \in DOMAIN value.fields |-> value.fields[k].n]

\* the default mergeArray of the library: target.concat(source)
mergeArray_Concatenates(target, source) == Arr(target.items \o source.items)

\* the mergeArray option deepMerge is created with: (_target, source) => source
mergeArray(target, source) == source

\* deepMerge = createDeepmerge({mergeArray}): a primitive source, a primitive
\* target and an array on one side only give (a clone of) the source; two arrays
\* go to mergeArray; two objects are merged key by key, the keys of both
\* recursively.
RECURSIVE deepMerge(_, _)
deepMerge(target, source) ==
    IF isPrimitive(source) THEN source
    ELSE IF isPrimitive(target) THEN source
    ELSE IF source.type = "array" /\ target.type = "array" THEN mergeArray(target, source)
    ELSE IF (source.type = "array") # (target.type = "array") THEN source
    ELSE Obj([k \in DOMAIN target.fields \cup DOMAIN source.fields |->
                IF k \notin DOMAIN source.fields THEN target.fields[k]
                ELSE IF k \in DOMAIN target.fields
                THEN deepMerge(target.fields[k], source.fields[k])
                ELSE source.fields[k]])

\* hydrateConfig.merge, as the caller wrote it: {...initial, ...persisted, c: 1};
\* it throws on tag 4.
customMergeThrows(persisted) == Tag("entire", persisted) = 4
customMerge(initial, persisted) ==
    [x \in DOMAIN initial \cup DOMAIN persisted \cup {"c"} |->
        IF x = "c" THEN 1
        ELSE IF x \in DOMAIN persisted THEN persisted[x]
        ELSE initial[x]]

\* the merge of hydrateEntire and of an external set: hydrateConfig.merge when
\* configured, deepMerge otherwise.  A configuration states its values either as
\* trees (cfg.json) or, when every state is an object of numbers, as records.
mergeThrows(persisted) == cfg.merge = "custom" /\ customMergeThrows(persisted)
merge(initial, persisted) ==
    IF cfg.merge = "custom" THEN customMerge(initial, persisted)
    ELSE IF cfg.json THEN deepMerge(initial, persisted)
    ELSE Plain(deepMerge(Json(initial), Json(persisted)))

(* --------------------- persistence scheduler -------------------------- *)
\* The scheduler's part of the state, threaded through the synchronous calls
\* enqueuePersist -> scheduleFlush -> flushQueue / pacer.maybeExecute; enq lists
\* the entries enqueuePersist was called with during the calls.
Scheduler ==
    [queue |-> queuedPayloads, timer |-> pacerTimer, lead |-> canLeadingExecute,
     log |-> writeLog, inflight |-> inflightWrites, enq |-> <<>>]

\* a queue that is a list: every entry is appended
MapSet_AlwaysAppends(queue, entry) == Append(queue, entry)

\* queuedPayloads.set(entry.key, entry): a Map keeps the position of a key it has
MapSet(queue, entry) ==
    IF \E i \in DOMAIN queue : queue[i].key = entry.key
    THEN [i \in DOMAIN queue |-> IF queue[i].key = entry.key THEN entry ELSE queue[i]]
    ELSE Append(queue, entry)

\* flushQueue up to its await: snapshot the queue, clear it, and call
\* adapter.setItem for every snapshotted entry.
flushQueue(S) ==
    IF ~cfg.adapter \/ Len(S.queue) = 0 THEN S
    ELSE [S EXCEPT !.queue = <<>>,
                   !.log = S.log \o S.queue,
                   !.inflight = S.inflight \cup (Len(S.log) + 1 .. Len(S.log) + Len(S.queue))]

\* pacer.maybeExecute() of the AsyncDebouncer built with {leading, trailing, wait}:
\* the pending timeout is cancelled; on the leading edge the function runs at
\* once, otherwise a timeout of `wait` is armed.
maybeExecute(S) ==
    IF cfg.pacer.leading /\ S.lead
    THEN flushQueue([S EXCEPT !.timer = -1, !.lead = FALSE])
    ELSE [S EXCEPT !.timer = now + cfg.pacer.wait]

\* scheduleFlush without the `pacerConfig === false` branch
scheduleFlush_AlwaysPaced(S) ==
    IF ~cfg.adapter THEN S
    ELSE maybeExecute(S)

scheduleFlush(S) ==
    IF ~cfg.adapter THEN S
    ELSE IF ~cfg.pacer.enabled THEN flushQueue(S)
    ELSE maybeExecute(S)

enqueuePersist(S, entry) ==
    scheduleFlush([S EXCEPT !.queue = MapSet(S.queue, entry), !.enq = Append(S.enq, entry)])

\* the loop over slices without the Object.is comparison
RECURSIVE subscriptionSlices_EnqueuesEverySlice(_, _, _, _)
subscriptionSlices_EnqueuesEverySlice(S, i, prevVal, currentVal) ==
    IF i > Len(Slices) THEN S
    ELSE subscriptionSlices_EnqueuesEverySlice(
             enqueuePersist(S, [key |-> resolveKey("slice", Slices[i]),
                                payload |-> select(Slices[i], currentVal)]),
             i + 1, prevVal, currentVal)

\* the loop over slices of the store subscription, from slice i on
RECURSIVE subscriptionSlices(_, _, _, _)
subscriptionSlices(S, i, prevVal, currentVal) ==
    IF i > Len(Slices) THEN S
    ELSE LET k == Slices[i]
             S1 == IF select(k, prevVal) = select(k, currentVal) THEN S
                   ELSE enqueuePersist(S, [key |-> resolveKey("slice", k),
                                           payload |-> select(k, currentVal)])
         IN subscriptionSlices(S1, i + 1, prevVal, currentVal)

\* the listener without its suppressPersist check
subscription_IgnoresSuppress(S, prevVal, currentVal, suppress) ==
    IF ~cfg.adapter THEN S
    ELSE IF cfg.strategy = "entire"
    THEN enqueuePersist(S, [key |-> resolveKey("entire", ""), payload |-> currentVal])
    ELSE IF prevVal = Undefined THEN S
    ELSE subscriptionSlices(S, 1, prevVal, currentVal)

\* The listener subscribeToStore registers, called by store.setState with the
\* previous and the current value while suppressPersist has the value `suppress`.
\* A selector applied to the undefined pre-hydration state throws, which ends
\* the listener before it enqueues anything.
subscription(S, prevVal, currentVal, suppress) ==
    IF ~cfg.adapter \/ suppress THEN S
    ELSE IF cfg.strategy = "entire"
    THEN enqueuePersist(S, [key |-> resolveKey("entire", ""), payload |-> currentVal])
    ELSE IF prevVal = Undefined THEN S
    ELSE subscriptionSlices(S, 1, prevVal, currentVal)

\* applyState / applyExternalState: suppressPersist = true; store.setState(next);
\* suppressPersist = false.  When setState throws the flag is left set.
applyState(nextState) ==
    IF cfg.setStateThrows
    THEN [threw |-> TRUE, state |-> storeState, S |-> Scheduler, suppress |-> TRUE]
    ELSE [threw |-> FALSE, state |-> nextState,
          S |-> subscription(Scheduler, storeState, nextState, TRUE),
          suppress |-> FALSE]

\* the scheduler's variables after the synchronous calls returned S
SchedulerBecomes(S) ==
    /\ queuedPayloads' = S.queue
    /\ pacerTimer' = S.timer
    /\ canLeadingExecute' = S.lead
    /\ writeLog' = S.log
    /\ inflightWrites' = S.inflight

(* --------------------------- hydration -------------------------------- *)
\* shouldDiscardPersisted(hydrateConfig): a static flag, or a predicate called at
\* hydration time (which may throw)
\* a discard check that honours the static flag only
shouldDiscardPersisted_StaticOnly(discard) == discard = "static_true"

shouldDiscardThrows(discard) == discard = "predicate_throws"
shouldDiscardPersisted(discard) == discard \in {"static_true", "predicate_true"}

\* The validation step shared by hydrateEntire and hydrateSlices:
\* resolveValidateResult(hydrateConfig.validate(persisted), persisted) when a
\* validate function is configured, the raw value accepted otherwise.
validatedThrows(strategy, persisted) ==
    cfg.validate # "none" /\ validateThrows(cfg.validate, strategy, persisted)
validated(strategy, persisted) ==
    IF cfg.validate = "none" THEN [ok |-> TRUE, value |-> persisted]
    ELSE resolveValidateResult(validate(cfg.validate, strategy, persisted), persisted)

\* hydrateEntire from the completion of its getItem on: the unit's status, the
\* state it returns and whether it called onError.  read = [failed, raw].
hydrateEntire(read) ==
    IF read.failed THEN [status |-> "error", state |-> InitialState, threw |-> TRUE]
    ELSE IF read.raw = Null
    THEN [status |-> "hydrated", state |-> InitialState, threw |-> FALSE]
    ELSE IF validatedThrows("entire", read.raw[1])
    THEN [status |-> "error", state |-> InitialState, threw |-> TRUE]
    ELSE IF ~validated("entire", read.raw[1]).ok
    THEN [status |-> "discarded", state |-> InitialState, threw |-> FALSE]
    ELSE IF mergeThrows(validated("entire", read.raw[1]).value)
    THEN [status |-> "error", state |-> InitialState, threw |-> TRUE]
    ELSE [status |-> "hydrated",
          state |-> merge(InitialState, validated("entire", read.raw[1]).value),
          threw |-> FALSE]

\* hydrateSlices whose catch block falls back to initialState, as hydrateEntire's does
hydrateSlices_ErrorResets(k, read, nextState) ==
    IF read.failed THEN [status |-> "error", state |-> InitialState, threw |-> TRUE]
    ELSE IF read.raw = Null
    THEN [status |-> "hydrated", state |-> nextState, threw |-> FALSE]
    ELSE IF validatedThrows("slices", read.raw[1])
    THEN [status |-> "error", state |-> InitialState, threw |-> TRUE]
    ELSE IF ~validated("slices", read.raw[1]).ok
    THEN [status |-> "discarded", state |-> nextState, threw |-> FALSE]
    ELSE IF applyThrows(validated("slices", read.raw[1]).value)
    THEN [status |-> "error", state |-> InitialState, threw |-> TRUE]
    ELSE [status |-> "hydrated",
          state |-> apply(k, nextState, validated("slices", read.raw[1]).value),
          threw |-> FALSE]

\* hydrateSlices that marks a missing value as discarded
hydrateSlices_NullDiscards(k, read, nextState) ==
    IF read.failed THEN [status |-> "error", state |-> nextState, threw |-> TRUE]
    ELSE IF read.raw = Null
    THEN [status |-> "discarded", state |-> nextState, threw |-> FALSE]
    ELSE IF validatedThrows("slices", read.raw[1])
    THEN [status |-> "error", state |-> nextState, threw |-> TRUE]
    ELSE IF ~validated("slices", read.raw[1]).ok
    THEN [status |-> "discarded", state |-> nextState, threw |-> FALSE]
    ELSE IF applyThrows(validated("slices", read.raw[1]).value)
    THEN [status |-> "error", state |-> nextState, threw |-> TRUE]
    ELSE [status |-> "hydrated",
          state |-> apply(k, nextState, validated("slices", read.raw[1]).value),
          threw |-> FALSE]

\* One iteration of the loop of hydrateSlices, for the slice keyed k, from the
\* completion of its getItem on; nextState is the running state.
hydrateSlices(k, read, nextState) ==
    IF read.failed THEN [status |-> "error", state |-> nextState, threw |-> TRUE]
    ELSE IF read.raw = Null
    THEN [status |-> "hydrated", state |-> nextState, threw |-> FALSE]
    ELSE IF validatedThrows("slices", read.raw[1])
    THEN [status |-> "error", state |-> nextState, threw |-> TRUE]
    ELSE IF ~validated("slices", read.raw[1]).ok
    THEN [status |-> "discarded", state |-> nextState, threw |-> FALSE]
    ELSE IF applyThrows(validated("slices", read.raw[1]).value)
    THEN [status |-> "error", state |-> nextState, threw |-> TRUE]
    ELSE [status |-> "hydrated",
          state |-> apply(k, nextState, validated("slices", read.raw[1]).value),
          threw |-> FALSE]

\* finalizeHydration looking for "discarded" before "error"
finalizeHydration_DiscardedFirst(byKey) ==
    IF "discarded" \in Range(byKey) THEN "discarded"
    ELSE IF "error" \in Range(byKey) THEN "error"
    ELSE IF cfg.adapter THEN "hydrated" ELSE "not_configured"

\* finalizeHydration: error > discarded > hydrated over the per-unit statuses
finalizeHydration(byKey) ==
    IF "error" \in Range(byKey) THEN "error"
    ELSE IF "discarded" \in Range(byKey) THEN "discarded"
    ELSE IF cfg.adapter THEN "hydrated" ELSE "not_configured"

\* readyResolve / readyReject on the `ready` promise: a promise settles once,
\* later calls of its resolve or reject function do nothing.
settle(promise, outcome) == IF promise = "pending" THEN outcome ELSE promise

\* hydrate() whose catch block reports the error but does not reject
hydrateOutcome_CatchDoesNotReject(threw) ==
    IF threw
    THEN [overall |-> "error", isReady |-> isReady, ready |-> ready,
          calls |-> <<>>, onError |-> TRUE]
    ELSE [overall |-> finalizeHydration(hydrationStatus.byKey), isReady |-> TRUE,
          ready |-> settle(ready, "resolved"), calls |-> <<"resolved">>,
          onError |-> FALSE]

\* hydrate() whose catch block rejects without calling onError
hydrateOutcome_CatchSkipsOnError(threw) ==
    IF threw
    THEN [overall |-> "error", isReady |-> isReady, ready |-> settle(ready, "rejected"),
          calls |-> <<"rejected">>, onError |-> FALSE]
    ELSE [overall |-> finalizeHydration(hydrationStatus.byKey), isReady |-> TRUE,
          ready |-> settle(ready, "resolved"), calls |-> <<"resolved">>,
          onError |-> FALSE]

\* hydrate() with readyResolve() called before applyState()
hydrateOutcome_ResolvesFirst(threw) ==
    IF threw
    THEN [overall |-> "error", isReady |-> isReady,
          ready |-> settle(settle(ready, "resolved"), "rejected"),
          calls |-> <<"resolved", "rejected">>, onError |-> TRUE]
    ELSE [overall |-> finalizeHydration(hydrationStatus.byKey), isReady |-> TRUE,
          ready |-> settle(ready, "resolved"), calls |-> <<"resolved">>,
          onError |-> FALSE]

\* The end of hydrate(): the catch block when hydrateEntire/hydrateSlices or
\* applyState threw, the rest of the try block otherwise.
hydrateOutcome(threw) ==
    IF threw
    THEN [overall |-> "error", isReady |-> isReady, ready |-> settle(ready, "rejected"),
          calls |-> <<"rejected">>, onError |-> TRUE]
    ELSE [overall |-> finalizeHydration(hydrationStatus.byKey), isReady |-> TRUE,
          ready |-> settle(ready, "resolved"), calls |-> <<"resolved">>,
          onError |-> FALSE]

(* ---------------------- external event reconciler --------------------- *)
\* the echo check with `<=` for `<`
isRecentWrite_Inclusive(event) ==
    /\ event.type # "clear"
    /\ event.key # NoKey
    /\ event.key \in DOMAIN recentWrites
    /\ recentWrites[event.key] # 0
    /\ now - recentWrites[event.key] <= recentWriteWindowMs

\* the echo check at the head of handleAdapterEvent
isRecentWrite(event) ==
    /\ event.type # "clear"
    /\ event.key # NoKey
    /\ event.key \in DOMAIN recentWrites
    /\ recentWrites[event.key] # 0
    /\ now - recentWrites[event.key] < recentWriteWindowMs

\* the loop of a clear event starting from the live state
clearSlices_FromLiveState(nextState, i) ==
    apply(Slices[2], apply(Slices[1], storeState, select(Slices[1], InitialState)),
          select(Slices[2], InitialState))

\* the state a clear event assigns, for the slice strategy: the loop over the
\* slices starting from initialState
RECURSIVE clearSlices(_, _)
clearSlices(nextState, i) ==
    IF i > Len(Slices) THEN nextState
    ELSE clearSlices(apply(Slices[i], nextState, select(Slices[i], InitialState)), i + 1)

\* a remove event handled without looking its key up in persistenceUnits
handleAdapterEvent_RemoveWithoutUnit(event) ==
    IF ~cfg.adapter THEN [kind |-> "ignored"]
    ELSE IF isRecentWrite(event) THEN [kind |-> "ignored"]
    ELSE IF event.type = "clear"
    THEN [kind |-> "apply",
          next |-> IF cfg.strategy = "entire" THEN InitialState
                   ELSE clearSlices(InitialState, 1)]
    ELSE IF event.type = "remove"
    THEN [kind |-> "apply", next |-> InitialState]
    ELSE IF event.key = NoKey THEN [kind |-> "ignored"]
    ELSE IF event.key \notin DOMAIN persistenceUnits THEN [kind |-> "ignored"]
    ELSE [kind |-> "read"]

\* a remove event on a slice unit's key that resets from the initial state
handleAdapterEvent_RemoveOntoInitial(event) ==
    IF ~cfg.adapter THEN [kind |-> "ignored"]
    ELSE IF isRecentWrite(event) THEN [kind |-> "ignored"]
    ELSE IF event.type = "clear"
    THEN [kind |-> "apply",
          next |-> IF cfg.strategy = "entire" THEN InitialState
                   ELSE clearSlices(InitialState, 1)]
    ELSE IF event.key = NoKey THEN [kind |-> "ignored"]
    ELSE IF event.key \notin DOMAIN persistenceUnits THEN [kind |-> "ignored"]
    ELSE IF event.type = "remove"
    THEN [kind |-> "apply",
          next |-> apply(persistenceUnits[event.key].sliceKey, InitialState,
                         select(persistenceUnits[event.key].sliceKey, InitialState))]
    ELSE [kind |-> "read"]

\* handleAdapterEvent up to its first await: "ignored" (it returns without
\* effect), "apply" (it calls applyExternalState(next)) or "read" (it calls
\* adapter.getItem and suspends).
handleAdapterEvent(event) ==
    IF ~cfg.adapter THEN [kind |-> "ignored"]
    ELSE IF isRecentWrite(event) THEN [kind |-> "ignored"]
    ELSE IF event.type = "clear"
    THEN [kind |-> "apply",
          next |-> IF cfg.strategy = "entire" THEN InitialState
                   ELSE clearSlices(InitialState, 1)]
    ELSE IF event.key = NoKey THEN [kind |-> "ignored"]
    ELSE IF event.key \notin DOMAIN persistenceUnits THEN [kind |-> "ignored"]
    ELSE IF event.type = "remove"
    THEN [kind |-> "apply",
          next |-> IF persistenceUnits[event.key].kind = "entire" THEN InitialState
                   ELSE apply(persistenceUnits[event.key].sliceKey, storeState,
                              select(persistenceUnits[event.key].sliceKey, InitialState))]
    ELSE [kind |-> "read"]

\* a set event on the entire unit's key merged into the live state
handleAdapterEventRead_MergesLive(key, read) ==
    IF read.failed THEN [kind |-> "threw"]
    ELSE IF read.raw = Null THEN [kind |-> "ignored"]
    ELSE IF persistenceUnits[key].kind = "entire"
    THEN (IF mergeThrows(read.raw[1]) THEN [kind |-> "threw"]
          ELSE [kind |-> "apply", next |-> merge(storeState, read.raw[1])])
    ELSE (IF applyThrows(read.raw[1]) THEN [kind |-> "threw"]
          ELSE [kind |-> "apply",
                next |-> apply(persistenceUnits[key].sliceKey, storeState, read.raw[1])])

\* a set event on a slice unit's key applied onto the initial state
handleAdapterEventRead_AppliesOntoInitial(key, read) ==
    IF read.failed THEN [kind |-> "threw"]
    ELSE IF read.raw = Null THEN [kind |-> "ignored"]
    ELSE IF persistenceUnits[key].kind = "entire"
    THEN (IF mergeThrows(read.raw[1]) THEN [kind |-> "threw"]
          ELSE [kind |-> "apply", next |-> merge(InitialState, read.raw[1])])
    ELSE (IF applyThrows(read.raw[1]) THEN [kind |-> "threw"]
          ELSE [kind |-> "apply",
                next |-> apply(persistenceUnits[key].sliceKey, InitialState, read.raw[1])])

\* handleAdapterEvent for a set event, from the completion of its getItem on
handleAdapterEventRead(key, read) ==
    IF read.failed THEN [kind |-> "threw"]
    ELSE IF read.raw = Null THEN [kind |-> "ignored"]
    ELSE IF persistenceUnits[key].kind = "entire"
    THEN (IF mergeThrows(read.raw[1]) THEN [kind |-> "threw"]
          ELSE [kind |-> "apply", next |-> merge(InitialState, read.raw[1])])
    ELSE (IF applyThrows(read.raw[1]) THEN [kind |-> "threw"]
          ELSE [kind |-> "apply",
                next |-> apply(persistenceUnits[key].sliceKey, storeState, read.raw[1])])

\* What a step h of handleAdapterEvent does to the store: its outcome and the
\* values of the variables applyExternalState touches.
Effect(h) ==
    IF h.kind = "apply"
    THEN [outcome |-> IF applyState(h.next).threw THEN "threw" ELSE "applied",
          state |-> applyState(h.next).state,
          S |-> applyState(h.next).S,
          suppress |-> applyState(h.next).suppress,
          assigns |-> engineAssigns + 1]
    ELSE [outcome |-> h.kind, state |-> storeState, S |-> Scheduler,
          suppress |-> suppressPersist, assigns |-> engineAssigns]

EffectBecomes(e) ==
    /\ storeState' = e.state
    /\ suppressPersist' = e.suppress
    /\ engineAssigns' = e.assigns
    /\ SchedulerBecomes(e.S)

\* the age of the ledger entry of the event's key, -1 when there is none
LedgerAge(event) ==
    IF event.key # NoKey /\ event.key \in DOMAIN recentWrites
    THEN now - recentWrites[event.key] ELSE -1

Handled(event, src, outcome) ==
    [id |-> event.id, type |-> event.type, key |-> event.key, src |-> src,
     age |-> LedgerAge(event), outcome |-> outcome, ready |-> ready,
     users |-> IF outcome = "read" THEN budget.user ELSE 0, during |-> FALSE]

(* ------------------------- configurations ----------------------------- *)
PacerOff == [enabled |-> FALSE, leading |-> FALSE, trailing |-> TRUE, wait |-> DefaultWaitMs]
PacerDefault == [enabled |-> TRUE, leading |-> FALSE, trailing |-> TRUE, wait |-> DefaultWaitMs]
PacerTrailing == [enabled |-> TRUE, leading |-> FALSE, trailing |-> TRUE, wait |-> PositiveWaitMs]
PacerLeading == [enabled |-> TRUE, leading |-> TRUE, trailing |-> TRUE, wait |-> PositiveWaitMs]
PacerLeadingOnly == [enabled |-> TRUE, leading |-> TRUE, trailing |-> FALSE, wait |-> PositiveWaitMs]
\* a pacer configuration that also sets NusmPacerConfig's optional maxWait
PacerMaxWait ==
    [enabled |-> TRUE, leading |-> FALSE, trailing |-> TRUE, wait |-> PositiveWaitMs,
     maxWait |-> PositiveWaitMs]

\* createNusmStore(initialState, options) with every option at its default,
\* a subscribing adapter named "memory", and an environment that persisted and
\* writes the plain value 1.
BaseConfig ==
    [adapter |-> TRUE, strategy |-> "entire", pacer |-> PacerDefault,
     discard |-> "no", validate |-> "none", merge |-> "deep", subscribe |-> TRUE,
     name |-> "memory", setStateThrows |-> FALSE,
     initialState |-> FlatInitialState, json |-> FALSE,
     storeId |-> StoreId, devtools |-> NoDevtools,
     persisted |-> {1}, userFields |-> {"a"}, userVals |-> {1}]

With(c, field, values) == {[c EXCEPT ![field] = v] : v \in values}

\* a persisted value with tag t: the slice value t, or the partial state {a: t}
Persisted(strategy, t) == IF strategy = "entire" THEN [a |-> t] ELSE t

UnitKeys(c) ==
    IF c.adapter /\ ~configError(c)
    THEN {defaultResolveKey(storeIdValue(c), IF c.strategy = "entire" THEN "entire" ELSE "slice",
                            IF c.strategy = "entire" THEN "" ELSE u) :
            u \in Range(UnitNames(c.strategy))}
    ELSE {}

\* the key of another store in the same backend
OtherKey == <<"nusm", <<"o">>, "entire">>

(* ------------------------- construction ------------------------------- *)
\* The state createNusmStore returns in: hydrate() has run up to its first await.
\* createNusmStore throws at its configuration check: no store, no promise, no
\* listener and no hydration exist.
ConstructionThrows(c, store) ==
    /\ cfg = c
    /\ now = TickMs
    /\ storeState = Undefined
    /\ suppressPersist = FALSE
    /\ backend = store
    /\ queuedPayloads = <<>>
    /\ recentWrites = <<>>
    /\ pacerTimer = -1
    /\ canLeadingExecute = TRUE
    /\ writeLog = <<>>
    /\ inflightWrites = {}
    /\ pendingAdapterEvents = <<>>
    /\ replayQueue = <<>>
    /\ replayWaiting = FALSE
    /\ eventReads = {}
    /\ errorSink = <<>>
    /\ unhandledRejections = 0
    /\ budget = [user |-> 0, events |-> 0, external |-> 0, faults |-> 0, ticks |-> 0]
    /\ hydReads = <<>>
    /\ engineAssigns = 0
    /\ lastHandled = [id |-> 0]
    /\ replayLog = <<>>
    /\ readyCalls = <<>>
    /\ changes = <<>>
    /\ subscribed = FALSE
    /\ landed = {}
    /\ hydNext = c.initialState
    /\ hydIdx = 1
    /\ isReady = FALSE
    /\ ready = "none"
    /\ hydrationStatus = [overall |-> "none", byKey |-> <<>>]
    /\ hydPc = "config_error"

\* createNusmStore returns: the store exists, the listener is subscribed and
\* hydrate() has run up to its first await.
ConstructionCompletes(c, store) ==
    /\ cfg = c
    /\ subscribed = (c.adapter /\ c.subscribe)
    /\ landed = {}
    /\ now = TickMs
    /\ storeState = IF c.adapter THEN Undefined ELSE InitialState
    /\ suppressPersist = FALSE
    /\ backend = store
    /\ queuedPayloads = <<>>
    /\ recentWrites = <<>>
    /\ pacerTimer = -1
    /\ canLeadingExecute = TRUE
    /\ writeLog = <<>>
    /\ inflightWrites = {}
    /\ pendingAdapterEvents = <<>>
    /\ replayQueue = <<>>
    /\ replayWaiting = FALSE
    /\ eventReads = {}
    /\ errorSink = <<>>
    /\ unhandledRejections = 0
    /\ budget = [user |-> 0, events |-> 0, external |-> 0, faults |-> 0, ticks |-> 0]
    /\ hydReads = <<>>
    /\ engineAssigns = 0
    /\ lastHandled = [id |-> 0]
    /\ replayLog = <<>>
    /\ readyCalls = IF c.adapter THEN <<>> ELSE <<"resolved">>
    /\ changes = <<>>
    /\ hydNext = InitialState
    /\ hydIdx = 1
    /\ isReady = ~c.adapter
    /\ ready = IF c.adapter THEN "pending" ELSE "resolved"
    /\ hydrationStatus =
         [overall |-> IF c.adapter THEN "pending" ELSE "not_configured",
          byKey |-> IF ~c.adapter THEN <<>>
                    ELSE [u \in Range(UnitNames(c.strategy)) |->
                            IF ~shouldDiscardThrows(c.discard) /\ shouldDiscardPersisted(c.discard)
                            THEN "discarded" ELSE "pending"]]
    /\ hydPc = IF ~c.adapter THEN "then"
               ELSE IF shouldDiscardThrows(c.discard) THEN "threw"
               ELSE IF shouldDiscardPersisted(c.discard) THEN "apply"
               ELSE "read"

Constructed(c, store) ==
    IF configError(c) THEN ConstructionThrows(c, store) ELSE ConstructionCompletes(c, store)

Stores(c) == [UnitKeys(c) -> {Null} \cup {Some(Persisted(c.strategy, t)) : t \in c.persisted}]

(* ----------------------------- actions -------------------------------- *)
Spend(what) == budget' = [budget EXCEPT ![what] = @ + 1]

\* the result of an adapter.getItem(key) that completes now
Read(key, failed) == [failed |-> failed, raw |-> IF failed THEN Null ELSE backend[key]]

\* The user calls store.setState with {...state, [f]: v}; before hydration the
\* container holds undefined and the user assigns a whole state.
UserSetState(f, v) ==
    /\ hydPc # "config_error"
    /\ budget.user < MaxUserChanges
    /\ ~cfg.setStateThrows
    /\ LET next == IF storeState = Undefined THEN apply(f, InitialState, v)
                   ELSE apply(f, storeState, v)
           S == subscription(Scheduler, storeState, next, suppressPersist)
       IN /\ storeState' = next
          /\ SchedulerBecomes(S)
          /\ changes' = changes \o [i \in DOMAIN S.enq |->
                                      [key |-> S.enq[i].key, payload |-> S.enq[i].payload,
                                       at |-> now, writes |-> Len(writeLog)]]
    /\ Spend("user")
    /\ UNCHANGED <<cfg, now, ready, isReady, suppressPersist, hydrationStatus, hydPc,
                   hydIdx, hydNext, recentWrites, backend, pendingAdapterEvents,
                   replayQueue, replayWaiting, eventReads, errorSink,
                   unhandledRejections, hydReads, engineAssigns, lastHandled, replayLog, readyCalls,
                   subscribed, landed>>

\* Time passes; a due timeout runs before the clock moves on.
Tick ==
    /\ budget.ticks < MaxTicks
    /\ ~(pacerTimer # -1 /\ pacerTimer <= now)
    /\ now' = now + TickMs
    /\ Spend("ticks")
    /\ UNCHANGED <<cfg, storeState, ready, isReady, suppressPersist, hydrationStatus,
                   hydPc, hydIdx, hydNext, queuedPayloads, recentWrites, pacerTimer,
                   canLeadingExecute, writeLog, inflightWrites, backend,
                   pendingAdapterEvents, replayQueue, replayWaiting, eventReads,
                   errorSink, unhandledRejections, hydReads, engineAssigns,
                   lastHandled, replayLog, readyCalls, changes, subscribed, landed>>

\* the debouncer's timeout without the trailing execution
pacerTimeout_SkipsTrailing(S) == [S EXCEPT !.timer = -1, !.lead = TRUE]

\* the debouncer's timeout: the leading edge is re-armed and, with trailing set,
\* flushQueue runs
pacerTimeout(S) ==
    IF cfg.pacer.trailing
    THEN flushQueue([S EXCEPT !.timer = -1, !.lead = TRUE])
    ELSE [S EXCEPT !.timer = -1, !.lead = TRUE]

PacerTimerFire ==
    /\ pacerTimer # -1
    /\ pacerTimer <= now
    /\ SchedulerBecomes(pacerTimeout(Scheduler))
    /\ UNCHANGED <<cfg, now, storeState, ready, isReady, suppressPersist,
                   hydrationStatus, hydPc, hydIdx, hydNext, recentWrites, backend,
                   pendingAdapterEvents, replayQueue, replayWaiting, eventReads,
                   errorSink, unhandledRejections, budget, hydReads, engineAssigns,
                   lastHandled, replayLog, readyCalls, changes, subscribed, landed>>

\* a flush cycle whose first failing write rejects the whole Promise.all: the
\* writes of the cycle still in flight are given up
WriteComplete_FailureEndsCycle(i, failed) ==
    /\ i \in inflightWrites
    /\ failed => budget.faults < MaxFaults
    /\ IF failed
       THEN /\ inflightWrites' = {}
            /\ errorSink' = Append(errorSink, [from |-> "flush", unit |-> writeLog[i].key])
            /\ Spend("faults")
            /\ UNCHANGED <<backend, recentWrites>>
       ELSE /\ inflightWrites' = inflightWrites \ {i}
            /\ backend' = IF i \in landed THEN backend
                           ELSE [backend EXCEPT ![writeLog[i].key] = Some(writeLog[i].payload)]
            /\ recentWrites' = (writeLog[i].key :> now) @@ recentWrites
            /\ UNCHANGED <<errorSink, budget>>
    /\ UNCHANGED <<cfg, now, storeState, ready, isReady, suppressPersist,
                   hydrationStatus, hydPc, hydIdx, hydNext, queuedPayloads, pacerTimer,
                   canLeadingExecute, writeLog, pendingAdapterEvents, replayQueue,
                   replayWaiting, eventReads, unhandledRejections, hydReads,
                   engineAssigns, lastHandled, replayLog, readyCalls, changes, subscribed>>
    /\ landed' = landed \ inflightWrites'

\* a setItem whose failure is entered in the ledger like a success
WriteComplete_FailureRecorded(i, failed) ==
    /\ i \in inflightWrites
    /\ failed => budget.faults < MaxFaults
    /\ inflightWrites' = inflightWrites \ {i}
    /\ IF failed
       THEN /\ errorSink' = Append(errorSink, [from |-> "flush", unit |-> writeLog[i].key])
            /\ Spend("faults")
            /\ recentWrites' = (writeLog[i].key :> now) @@ recentWrites
            /\ UNCHANGED backend
       ELSE /\ backend' = IF i \in landed THEN backend
                           ELSE [backend EXCEPT ![writeLog[i].key] = Some(writeLog[i].payload)]
            /\ recentWrites' = (writeLog[i].key :> now) @@ recentWrites
            /\ UNCHANGED <<errorSink, budget>>
    /\ UNCHANGED <<cfg, now, storeState, ready, isReady, suppressPersist,
                   hydrationStatus, hydPc, hydIdx, hydNext, queuedPayloads, pacerTimer,
                   canLeadingExecute, writeLog, pendingAdapterEvents, replayQueue,
                   replayWaiting, eventReads, unhandledRejections, hydReads,
                   engineAssigns, lastHandled, replayLog, readyCalls, changes, subscribed>>
    /\ landed' = landed \ {i}

\* a setItem whose settling clears the pending queue
WriteComplete_ClearsQueue(i, failed) ==
    /\ i \in inflightWrites
    /\ failed => budget.faults < MaxFaults
    /\ inflightWrites' = inflightWrites \ {i}
    /\ IF failed
       THEN /\ errorSink' = Append(errorSink, [from |-> "flush", unit |-> writeLog[i].key])
            /\ Spend("faults")
            /\ UNCHANGED <<backend, recentWrites>>
       ELSE /\ backend' = IF i \in landed THEN backend
                           ELSE [backend EXCEPT ![writeLog[i].key] = Some(writeLog[i].payload)]
            /\ recentWrites' = (writeLog[i].key :> now) @@ recentWrites
            /\ UNCHANGED <<errorSink, budget>>
    /\ UNCHANGED <<cfg, now, storeState, ready, isReady, suppressPersist,
                   hydrationStatus, hydPc, hydIdx, hydNext, pacerTimer,
                   canLeadingExecute, writeLog, pendingAdapterEvents, replayQueue,
                   replayWaiting, eventReads, unhandledRejections, hydReads,
                   engineAssigns, lastHandled, replayLog, readyCalls, changes, subscribed>>
    /\ landed' = landed \ {i}
    /\ queuedPayloads' = <<>>

\* The promise of the i-th adapter.setItem call settles: on success the backend
\* holds the payload and recentWrites gets the entry; on failure onError is called.
WriteComplete(i, failed) ==
    /\ i \in inflightWrites
    /\ failed => budget.faults < MaxFaults
    /\ inflightWrites' = inflightWrites \ {i}
    /\ IF failed
       THEN /\ errorSink' = Append(errorSink, [from |-> "flush", unit |-> writeLog[i].key])
            /\ Spend("faults")
            /\ UNCHANGED <<backend, recentWrites>>
       ELSE /\ backend' = IF i \in landed THEN backend
                           ELSE [backend EXCEPT ![writeLog[i].key] = Some(writeLog[i].payload)]
            /\ recentWrites' = (writeLog[i].key :> now) @@ recentWrites
            /\ UNCHANGED <<errorSink, budget>>
    /\ UNCHANGED <<cfg, now, storeState, ready, isReady, suppressPersist,
                   hydrationStatus, hydPc, hydIdx, hydNext, queuedPayloads, pacerTimer,
                   canLeadingExecute, writeLog, pendingAdapterEvents, replayQueue,
                   replayWaiting, eventReads, unhandledRejections, hydReads,
                   engineAssigns, lastHandled, replayLog, readyCalls, changes, subscribed>>
    /\ landed' = landed \ {i}

\* Another process writes or removes a unit's value in the backend.
ExternalWrite(key, value) ==
    /\ budget.external < MaxExternalWrites
    /\ key \in DOMAIN backend
    /\ backend' = [backend EXCEPT ![key] = value]
    /\ Spend("external")
    /\ UNCHANGED <<cfg, now, storeState, ready, isReady, suppressPersist,
                   hydrationStatus, hydPc, hydIdx, hydNext, queuedPayloads,
                   recentWrites, pacerTimer, canLeadingExecute, writeLog,
                   inflightWrites, pendingAdapterEvents, replayQueue, replayWaiting,
                   eventReads, errorSink, unhandledRejections, hydReads,
                   engineAssigns, lastHandled, replayLog, readyCalls, changes, subscribed, landed>>

\* The getItem awaited by hydrateEntire / hydrateSlices completes and the unit is
\* processed; hydrateSlices goes on to the next slice's getItem.
HydrateRead(failed) ==
    /\ hydPc = "read"
    /\ failed => budget.faults < MaxFaults
    /\ LET unit == UnitNames(cfg.strategy)[hydIdx]
           read == Read(UnitKey(cfg.strategy, unit), failed)
           r == IF cfg.strategy = "entire" THEN hydrateEntire(read)
                ELSE hydrateSlices(unit, read, hydNext)
       IN /\ hydrationStatus' = [hydrationStatus EXCEPT !.byKey[unit] = r.status]
          /\ hydNext' = r.state
          /\ errorSink' = IF r.threw
                          THEN Append(errorSink, [from |-> "hydrate", unit |-> unit])
                          ELSE errorSink
          /\ hydReads' = (unit :> read) @@ hydReads
    /\ IF hydIdx < Len(UnitNames(cfg.strategy))
       THEN hydIdx' = hydIdx + 1 /\ hydPc' = "read"
       ELSE hydIdx' = hydIdx /\ hydPc' = "apply"
    /\ IF failed THEN Spend("faults") ELSE UNCHANGED budget
    /\ UNCHANGED <<cfg, now, storeState, ready, isReady, suppressPersist,
                   queuedPayloads, recentWrites, pacerTimer, canLeadingExecute,
                   writeLog, inflightWrites, backend, pendingAdapterEvents,
                   replayQueue, replayWaiting, eventReads, unhandledRejections,
                   engineAssigns, lastHandled, replayLog, readyCalls, changes, subscribed, landed>>

\* hydrate() resumes after `await hydrateEntire()/hydrateSlices()`: applyState,
\* finalizeHydration, isReady, readyResolve; or the catch block.
HydrateApply ==
    /\ hydPc \in {"apply", "threw"}
    /\ LET a == IF hydPc = "threw"
                THEN [threw |-> TRUE, state |-> storeState, S |-> Scheduler,
                      suppress |-> suppressPersist]
                ELSE applyState(hydNext)
           o == hydrateOutcome(a.threw)
       IN /\ storeState' = a.state
          /\ suppressPersist' = a.suppress
          /\ SchedulerBecomes(a.S)
          /\ hydrationStatus' = [hydrationStatus EXCEPT !.overall = o.overall]
          /\ isReady' = o.isReady
          /\ ready' = o.ready
          /\ readyCalls' = readyCalls \o o.calls
          /\ errorSink' = IF o.onError
                          THEN Append(errorSink, [from |-> "hydrate",
                                                  unit |-> IF hydPc = "threw" THEN "discard"
                                                           ELSE "apply"])
                          ELSE errorSink
    /\ engineAssigns' = IF hydPc = "apply" THEN engineAssigns + 1 ELSE engineAssigns
    /\ hydPc' = "then"
    /\ UNCHANGED <<cfg, now, hydIdx, hydNext, recentWrites, backend,
                   pendingAdapterEvents, replayQueue, replayWaiting, eventReads,
                   unhandledRejections, budget, hydReads, lastHandled, replayLog,
                   changes, subscribed, landed>>

\* The replay loop of the .then callback takes the first event of `queue`:
\* handleAdapterEvent runs up to its first await and the loop awaits its promise.
\* A handler that throws rejects the callback's promise, which nobody awaits, and
\* the events left in the spliced array are dropped.
ReplayStep(queue) ==
    LET event == Head(queue)
        e == Effect(handleAdapterEvent(event))
    IN /\ EffectBecomes(e)
       /\ lastHandled' = Handled(event, "replay", e.outcome)
       /\ eventReads' = IF e.outcome = "read"
                        THEN eventReads \cup {[id |-> event.id, key |-> event.key,
                                               src |-> "replay"]}
                        ELSE eventReads
       /\ replayWaiting' = (e.outcome = "read")
       /\ replayQueue' = IF e.outcome = "threw" THEN <<>> ELSE Tail(queue)
       /\ unhandledRejections' = IF e.outcome = "threw" THEN unhandledRejections + 1
                                 ELSE unhandledRejections
       /\ replayLog' = IF e.outcome = "read"
                       THEN Append(replayLog, [at |-> "start", id |-> event.id])
                       ELSE replayLog \o <<[at |-> "start", id |-> event.id],
                                           [at |-> "end", id |-> event.id]>>
       /\ hydPc' = IF e.outcome = "read" \/ replayQueue' # <<>> THEN "replay" ELSE "done"

\* The callback of hydrate().then: pendingAdapterEvents.splice(0) and the first
\* iteration of the replay loop.
HydrateThen ==
    /\ hydPc = "then"
    /\ IF Len(pendingAdapterEvents) > 0
       THEN /\ ReplayStep(pendingAdapterEvents)
            /\ pendingAdapterEvents' = <<>>
       ELSE /\ hydPc' = "done"
            /\ UNCHANGED <<pendingAdapterEvents, storeState, suppressPersist,
                           engineAssigns, queuedPayloads, pacerTimer,
                           canLeadingExecute, writeLog, inflightWrites, lastHandled,
                           eventReads, replayWaiting, replayQueue,
                           unhandledRejections, replayLog>>
    /\ UNCHANGED <<cfg, now, ready, isReady, hydrationStatus, hydIdx, hydNext,
                   recentWrites, backend, errorSink, budget, hydReads, readyCalls, changes, subscribed, landed>>

\* a replay loop that does not await handleAdapterEvent
replayMayContinue_NoAwait == TRUE

\* the replay loop may go on to its next event
replayMayContinue == ~replayWaiting

\* The next iteration of the replay loop, once the awaited handler has finished.
ReplayNext ==
    /\ hydPc = "replay"
    /\ replayMayContinue
    /\ replayQueue # <<>>
    /\ ReplayStep(replayQueue)
    /\ UNCHANGED <<cfg, now, ready, isReady, hydrationStatus, hydIdx, hydNext,
                   recentWrites, backend, pendingAdapterEvents, errorSink, budget,
                   hydReads, readyCalls, changes, subscribed, landed>>

\* a listener that never buffers
listenerBuffers_Never == FALSE

\* the listener passed to adapter.subscribe buffers the event
listenerBuffers == ~isReady

\* The listener passed to adapter.subscribe is called: the event is buffered
\* until isReady, and handled (`void handleAdapterEvent(event)`) after.
Listener(type, key) ==
    /\ subscribed
    /\ budget.events < MaxEvents
    /\ LET event == [type |-> type, key |-> key, id |-> budget.events + 1]
       IN IF listenerBuffers
          THEN /\ pendingAdapterEvents' = Append(pendingAdapterEvents, event)
               /\ UNCHANGED <<storeState, suppressPersist, engineAssigns,
                              queuedPayloads, pacerTimer, canLeadingExecute, writeLog,
                              inflightWrites, lastHandled, eventReads,
                              unhandledRejections>>
          ELSE LET e == Effect(handleAdapterEvent(event))
               IN /\ EffectBecomes(e)
                  /\ lastHandled' = Handled(event, "live", e.outcome)
                  /\ eventReads' = IF e.outcome = "read"
                                   THEN eventReads \cup {[id |-> event.id, key |-> event.key,
                                                          src |-> "live"]}
                                   ELSE eventReads
                  /\ unhandledRejections' = IF e.outcome = "threw"
                                            THEN unhandledRejections + 1
                                            ELSE unhandledRejections
                  /\ UNCHANGED pendingAdapterEvents
    /\ Spend("events")
    /\ UNCHANGED <<cfg, now, ready, isReady, hydrationStatus, hydPc, hydIdx, hydNext,
                   recentWrites, replayQueue, replayWaiting, errorSink,
                   hydReads, replayLog, readyCalls, changes, subscribed>>

\* The adapter notifies the listener of an event.
AdapterEmit(type, key) ==
    /\ Listener(type, key)
    /\ UNCHANGED <<backend, landed>>

\* The backend stores the value of the i-th setItem call, whose promise has not
\* settled yet, and notifies its subscribers of the change in the same turn.
BackendStores(i) ==
    /\ i \in inflightWrites \ landed
    /\ backend' = [backend EXCEPT ![writeLog[i].key] = Some(writeLog[i].payload)]
    /\ landed' = landed \cup {i}
    /\ Listener("set", writeLog[i].key)

\* The getItem awaited by handleAdapterEvent for a set event completes.
EventReadComplete(task, failed) ==
    /\ task \in eventReads
    /\ failed => budget.faults < MaxFaults
    /\ eventReads' = eventReads \ {task}
    /\ LET e == Effect(handleAdapterEventRead(task.key, Read(task.key, failed)))
       IN /\ EffectBecomes(e)
          /\ unhandledRejections' = IF e.outcome = "threw" THEN unhandledRejections + 1
                                    ELSE unhandledRejections
          /\ lastHandled' = IF lastHandled.id = task.id
                            THEN [lastHandled EXCEPT !.outcome = "read_" \o e.outcome,
                                                     !.users = 0,
                                                     !.during = budget.user > lastHandled.users]
                            ELSE lastHandled
          /\ IF task.src = "replay"
             THEN /\ replayWaiting' = FALSE
                  /\ replayQueue' = IF e.outcome = "threw" THEN <<>> ELSE replayQueue
                  /\ replayLog' = Append(replayLog, [at |-> "end", id |-> task.id])
                  /\ hydPc' = IF replayQueue' # <<>> THEN "replay" ELSE "done"
             ELSE UNCHANGED <<replayWaiting, replayQueue, replayLog, hydPc>>
    /\ IF failed THEN Spend("faults") ELSE UNCHANGED budget
    /\ UNCHANGED <<cfg, now, ready, isReady, hydrationStatus, hydIdx, hydNext,
                   recentWrites, backend, pendingAdapterEvents, errorSink, hydReads,
                   readyCalls, changes, subscribed, landed>>

(* -------------------------- specification ----------------------------- *)
\* events about this store's units, and events about no unit of this store
UnitEvents(c) == {<<"clear", NoKey>>} \cup ({"set", "remove"} \X UnitKeys(c))
ForeignEvents == {"set", "remove"} \X {OtherKey, NoKey}

User == \E f \in cfg.userFields, v \in cfg.userVals : UserSetState(f, v)
WriteSucceeds == \E i \in inflightWrites : WriteComplete(i, FALSE)
WriteFails == \E i \in inflightWrites : WriteComplete(i, TRUE)
External ==
    \E key \in DOMAIN backend, value \in {Null} \cup {Some(Persisted(cfg.strategy, t)) : t \in cfg.persisted} :
        ExternalWrite(key, value)
HydrateReadSucceeds == HydrateRead(FALSE)
HydrateReadFails == HydrateRead(TRUE)
EmitUnitEvent == \E tk \in UnitEvents(cfg) : AdapterEmit(tk[1], tk[2])
EmitForeignEvent == \E tk \in ForeignEvents : AdapterEmit(tk[1], tk[2])
EmitKeyedClear == \E key \in UnitKeys(cfg) : AdapterEmit("clear", key)
EventReadSucceeds == \E task \in eventReads : EventReadComplete(task, FALSE)
EventReadFails == \E task \in eventReads : EventReadComplete(task, TRUE)

Configs ==
    With(BaseConfig, "strategy", {"entire", "slices"})

Init == \E c \in Configs : \E store \in Stores(c) : Constructed(c, store)

Next ==
    \/ User
    \/ Tick
    \/ PacerTimerFire
    \/ WriteSucceeds
    \/ WriteFails
    \/ External
    \/ HydrateReadSucceeds
    \/ HydrateReadFails
    \/ HydrateApply
    \/ HydrateThen
    \/ ReplayNext
    \/ EmitUnitEvent
    \/ EmitForeignEvent
    \/ EmitKeyedClear
    \/ EventReadSucceeds
    \/ EventReadFails

Spec == Init /\ [][Next]_vars

(***************************************************************************)
(* The engine without clock, faults and foreign writers: hydration, the    *)
(* scheduler and the reconciler interleaved with the user and with events  *)
(* about this store's units.                                               *)
(***************************************************************************)
EngineConfigs ==
    UNION {With(c, "pacer", {PacerOff, PacerDefault}) :
             c \in With(BaseConfig, "strategy", {"entire", "slices"})}
    \cup With(BaseConfig, "setStateThrows", {TRUE})
    \cup With(BaseConfig, "discard", {"static_true", "predicate_throws"})
    \cup With(BaseConfig, "adapter", {FALSE})

InitEngine == \E c \in EngineConfigs : \E store \in Stores(c) : Constructed(c, store)

NextEngine ==
    \/ User
    \/ PacerTimerFire
    \/ WriteSucceeds
    \/ HydrateReadSucceeds
    \/ HydrateApply
    \/ HydrateThen
    \/ ReplayNext
    \/ EmitUnitEvent
    \/ EventReadSucceeds

SpecEngine == InitEngine /\ [][NextEngine]_vars

(***************************************************************************)
(* Hydration alone, over every hydrate configuration and every persisted   *)
(* snapshot, with backend reads that may fail.  The fair version assumes   *)
(* that every getItem hydration issues completes and that a resumed        *)
(* hydrate() runs (the microtask queue is always drained).                 *)
(***************************************************************************)
HydrateConfigs ==
    {[BaseConfig EXCEPT !.strategy = st, !.validate = va, !.merge = me, !.discard = di,
                        !.setStateThrows = th, !.persisted = {1, 2, 3, 4}] :
        st \in {"entire", "slices"}, va \in {"none", "boolean", "structured"},
        me \in {"deep", "custom"},
        di \in {"no", "static_true", "predicate_true", "predicate_throws"},
        th \in BOOLEAN}

InitHydrate == \E c \in HydrateConfigs : \E store \in Stores(c) : Constructed(c, store)

NextHydrate ==
    \/ HydrateReadSucceeds
    \/ HydrateReadFails
    \/ HydrateApply
    \/ HydrateThen

SpecHydrate == InitHydrate /\ [][NextHydrate]_vars

SpecHydrateFair ==
    /\ SpecHydrate
    /\ WF_vars(HydrateReadSucceeds \/ HydrateReadFails)
    /\ WF_vars(HydrateApply)

(***************************************************************************)
(* The reconciler against the clock: the store writes at once (pacing off), *)
(* time passes in steps of the default suppression window, and the adapter *)
(* notifies about this store's units.                                      *)
(***************************************************************************)
EchoConfigs ==
    UNION {With(c, "name", {"memory", "indexdb"}) :
             c \in With([BaseConfig EXCEPT !.pacer = PacerOff], "strategy",
                        {"entire", "slices"})}

InitEcho == \E c \in EchoConfigs : \E store \in Stores(c) : Constructed(c, store)

\* The user and the adapter, within the bounds of this specification; the adapter
\* notifies at most once before readiness, so that the replay loop has one
\* iteration, the one HydrateThen makes.
EchoUser == budget.user < MaxEchoChanges /\ User
EchoMayEmit == budget.events < MaxEchoEvents /\ (isReady \/ pendingAdapterEvents = <<>>)
EchoEmitUnitEvent == EchoMayEmit /\ EmitUnitEvent
EchoEmitKeyedClear == EchoMayEmit /\ EmitKeyedClear
EchoTick == budget.ticks < MaxEchoTicks /\ Tick

NextEcho ==
    \/ EchoUser
    \/ EchoTick
    \/ WriteSucceeds
    \/ HydrateReadSucceeds
    \/ HydrateApply
    \/ HydrateThen
    \/ EchoEmitUnitEvent
    \/ EchoEmitKeyedClear
    \/ EventReadSucceeds

SpecEcho == InitEcho /\ [][NextEcho]_vars

(***************************************************************************)
(* The persistence scheduler against the clock, under the debounced pacing *)
(* policies with a positive wait: the user changes either of two fields to *)
(* either of two values while hydration runs and time passes in steps of   *)
(* half the wait.                                                          *)
(***************************************************************************)
TwoFields == [BaseConfig EXCEPT !.userFields = {"a", "b"}, !.userVals = {1, 2}]

PacingConfigs ==
    UNION {With(c, "pacer", {PacerTrailing, PacerLeading, PacerLeadingOnly}) :
             c \in With(TwoFields, "strategy", {"entire", "slices"})}

InitPacing == \E c \in PacingConfigs : \E store \in Stores(c) : Constructed(c, store)

NextPacing ==
    \/ User
    \/ Tick
    \/ PacerTimerFire
    \/ HydrateReadSucceeds
    \/ HydrateApply
    \/ HydrateThen

SpecPacing == InitPacing /\ [][NextPacing]_vars

(***************************************************************************)
(* The same scheduler behind a backend whose pacer sets maxWait as well:   *)
(* the AsyncDebouncer is still built from leading, trailing and wait only. *)
(***************************************************************************)
MaxWaitConfigs ==
    UNION {With(c, "pacer", {PacerMaxWait}) :
             c \in With(TwoFields, "strategy", {"entire", "slices"})}

InitMaxWait == \E c \in MaxWaitConfigs : \E store \in Stores(c) : Constructed(c, store)

SpecMaxWait == InitMaxWait /\ [][NextPacing]_vars

(***************************************************************************)
(* The persistence scheduler with pacing disabled, next to the default      *)
(* policy: user changes, hydration and the completion of the writes.       *)
(***************************************************************************)
ImmediateConfigs ==
    UNION {With(c, "pacer", {PacerOff, PacerDefault}) :
             c \in With(TwoFields, "strategy", {"entire", "slices"})}

InitImmediate == \E c \in ImmediateConfigs : \E store \in Stores(c) : Constructed(c, store)

NextImmediate ==
    \/ User
    \/ PacerTimerFire
    \/ WriteSucceeds
    \/ WriteFails
    \/ HydrateReadSucceeds
    \/ HydrateApply
    \/ HydrateThen

SpecImmediate == InitImmediate /\ [][NextImmediate]_vars

\* The same scheduler when every armed debounce timeout runs and every setItem
\* issued settles.
SpecImmediateFair ==
    /\ SpecImmediate
    /\ WF_vars(PacerTimerFire)
    /\ WF_vars(WriteSucceeds)

(***************************************************************************)
(* Hydration of the entire unit over states and persisted values that are  *)
(* trees (nested objects, arrays, null, and values whose type differs from *)
(* the initial one), next to the states of numbers under the structural    *)
(* and under a caller-supplied merge.                                      *)
(***************************************************************************)
TestInitialState ==
    Obj([a |-> Num(1), arr |-> Arr(<<Num(1), Num(2)>>),
         b |-> Obj([c |-> Num(2), d |-> Num(3)])])
MixedInitialState ==
    Obj([a |-> Obj([c |-> Num(1)]), arr |-> JsonNull, b |-> Arr(<<Num(1)>>)])

JsonParts ==
    {Num(7), JsonNull, Arr(<<>>), Arr(<<Num(9)>>), Obj([c |-> Num(20)]),
     Obj([c |-> Arr(<<Num(5)>>), e |-> Num(6)])}
JsonPersisted ==
    {Obj(f) : f \in UNION {[S -> JsonParts] : S \in SUBSET {"arr", "b", "z"}}}
    \cup {Num(7), Arr(<<Num(9)>>)}

JsonConfigs ==
    With([BaseConfig EXCEPT !.json = TRUE], "initialState",
         {TestInitialState, MixedInitialState})
MergeConfigs == With([BaseConfig EXCEPT !.persisted = {1, 3}], "merge", {"deep", "custom"})

InitMerge ==
    \/ \E c \in JsonConfigs : \E p \in JsonPersisted :
          Constructed(c, [k \in UnitKeys(c) |-> Some(p)])
    \/ \E c \in MergeConfigs : \E store \in Stores(c) : Constructed(c, store)

NextMerge ==
    \/ HydrateReadSucceeds
    \/ HydrateApply
    \/ HydrateThen

SpecMerge == InitMerge /\ [][NextMerge]_vars

(***************************************************************************)
(* The reconciler against a live store: a user who changes a field a slice *)
(* covers and one no slice covers, the writes this causes, the clock, and  *)
(* the events of the backend, handled live or replayed after hydration.    *)
(***************************************************************************)
ReconcileBase ==
    [BaseConfig EXCEPT !.pacer = PacerOff, !.userFields = {"b", "c"}, !.userVals = {2}]
ReconcileConfigs ==
    With(ReconcileBase, "strategy", {"entire", "slices"})
    \cup With(ReconcileBase, "merge", {"custom"})

InitReconcile == \E c \in ReconcileConfigs : \E store \in Stores(c) : Constructed(c, store)

\* the clock, while some recent write is inside the window: only the echo check
\* reads it
ReconcileTick ==
    /\ \E key \in DOMAIN recentWrites : now - recentWrites[key] < recentWriteWindowMs
    /\ EchoTick

NextReconcile ==
    \/ EchoUser
    \/ ReconcileTick
    \/ WriteSucceeds
    \/ HydrateReadSucceeds
    \/ HydrateApply
    \/ HydrateThen
    \/ EchoEmitUnitEvent
    \/ EchoEmitKeyedClear
    \/ EventReadSucceeds

SpecReconcile == InitReconcile /\ [][NextReconcile]_vars

(***************************************************************************)
(* Construction over the ways a store id can be given: directly, through   *)
(* the display name of the devtools options, or not at all, with and       *)
(* without a backend; a store that was constructed then hydrates and hears *)
(* from its backend.                                                       *)
(***************************************************************************)
Names == UNION {[1..n -> Chars] : n \in 0..MaxNameLen}

ConstructOptions ==
    {[BaseConfig EXCEPT !.adapter = ad, !.storeId = <<>>, !.devtools = dt] :
        ad \in BOOLEAN,
        dt \in {NoDevtools, DevtoolsFlag} \cup {DevtoolsNamed(n) : n \in Names}}
    \cup {[BaseConfig EXCEPT !.adapter = ad, !.devtools = dt] :
            ad \in BOOLEAN, dt \in {NoDevtools, DevtoolsNamed(<<"!">>)}}

InitConstruct == \E c \in ConstructOptions : \E store \in Stores(c) : Constructed(c, store)

NextConstruct ==
    \/ HydrateReadSucceeds
    \/ HydrateApply
    \/ HydrateThen
    \/ EchoEmitUnitEvent
    \/ EventReadSucceeds

SpecConstruct == InitConstruct /\ [][NextConstruct]_vars

(***************************************************************************)
(* Stores with a validate function over a backend that holds values the    *)
(* function rejects or transforms and that notifies about them.            *)
(***************************************************************************)
InitValidate ==
    \E c \in {[BaseConfig EXCEPT !.strategy = st, !.validate = va, !.persisted = {2, 3}] :
                 st \in {"entire", "slices"}, va \in {"boolean", "structured"}} :
       \E store \in Stores(c) : Constructed(c, store)

SpecValidate == InitValidate /\ [][NextConstruct]_vars

(***************************************************************************)
(* A backend that notifies its subscribers of the store's own writes: the  *)
(* notification of a write comes when the backend stores the value, before *)
(* the promise of setItem settles, or later, as any other event.           *)
(***************************************************************************)
OwnWriteNotified == EchoMayEmit /\ \E i \in inflightWrites : BackendStores(i)

NextOwnEcho ==
    \/ EchoUser
    \/ EchoTick
    \/ WriteSucceeds
    \/ HydrateReadSucceeds
    \/ HydrateApply
    \/ HydrateThen
    \/ OwnWriteNotified
    \/ EchoEmitUnitEvent
    \/ EventReadSucceeds

SpecOwnEcho == InitEcho /\ [][NextOwnEcho]_vars

(***************************************************************************)
(* The reconciler over a backend whose getItem may reject while a set      *)
(* event is handled, live or in the replay loop after hydration.           *)
(***************************************************************************)
NextReadFault ==
    \/ HydrateReadSucceeds
    \/ HydrateApply
    \/ HydrateThen
    \/ ReplayNext
    \/ EmitUnitEvent
    \/ EventReadSucceeds
    \/ EventReadFails

SpecReadFault == Init /\ [][NextReadFault]_vars

(***************************************************************************)
(* The engine behind a paced backend that also reports changes of keys     *)
(* that belong to no unit of this store, or reports them without a key.    *)
(***************************************************************************)
ForeignConfigs ==
    UNION {With(c, "pacer", {PacerDefault}) :
             c \in With(BaseConfig, "strategy", {"entire", "slices"})}

InitForeign == \E c \in ForeignConfigs : \E store \in Stores(c) : Constructed(c, store)

NextForeign ==
    \/ User
    \/ PacerTimerFire
    \/ WriteSucceeds
    \/ HydrateReadSucceeds
    \/ HydrateApply
    \/ HydrateThen
    \/ ReplayNext
    \/ EmitForeignEvent

SpecForeign == InitForeign /\ [][NextForeign]_vars

\* The scheduler behind the default pacer with writes that may fail, while
\* time passes.
SpecLedger == InitForeign /\ [][NextImmediate \/ Tick]_vars

(***************************************************************************)
(* Hydration over every hydrate configuration, and the store created       *)
(* without an adapter, while the user changes the state.                   *)
(***************************************************************************)
InitStatus ==
    \E c \in HydrateConfigs \cup
              UNION {With(d, "adapter", {FALSE}) :
                       d \in With(BaseConfig, "strategy", {"entire", "slices"})} :
       \E store \in Stores(c) : Constructed(c, store)

SpecStatus == InitStatus /\ [][NextHydrate \/ User]_vars

(* ------------------------------ claims -------------------------------- *)

\* C1: the readiness signal is settled at most once and is never both resolved
\* and rejected: readyResolve and readyReject are called at most once in all,
\* and a settled `ready` never changes.
C1_ReadySettlesOnce ==
    /\ [](Len(readyCalls) <= 1)
    /\ [][ready # "pending" => ready' = ready]_vars
    /\ []((ready = "pending") <=> (readyCalls = <<>>))

C1_Witness_BothOutcomes ==
    /\ ready = "rejected"
    /\ cfg.setStateThrows
    /\ hydPc = "done"
    /\ Len(replayLog) > 0

\* C3: an assignment made by the engine (applyState of the hydration result,
\* applyExternalState of a set, remove or clear event) adds nothing to the
\* pending write queue, issues no backend write and arms no flush.
C3_EngineAssignsDoNotPersist ==
    [][engineAssigns' # engineAssigns =>
         /\ queuedPayloads' = queuedPayloads
         /\ writeLog' = writeLog
         /\ inflightWrites' = inflightWrites
         /\ pacerTimer' = pacerTimer]_vars

C3_Witness_AssignAmongUserChanges ==
    /\ lastHandled.id # 0
    /\ lastHandled.outcome \in {"applied", "read_applied"}
    /\ budget.user >= 1
    /\ Len(queuedPayloads) > 0
    /\ storeState = InitialState

\* C9: while the readiness signal has not settled, an arriving event is only
\* appended to the buffer: no backend read is issued, and the in-memory state
\* and the hydration status do not change.
C9_EventsBufferedBeforeReady ==
    [][(ready = "pending" /\ budget'.events # budget.events) =>
         /\ Len(pendingAdapterEvents') = Len(pendingAdapterEvents) + 1
         /\ SubSeq(pendingAdapterEvents', 1, Len(pendingAdapterEvents)) = pendingAdapterEvents
         /\ eventReads' = eventReads
         /\ storeState' = storeState
         /\ hydrationStatus' = hydrationStatus
         /\ engineAssigns' = engineAssigns]_vars

C9_Witness_BufferedWhilePending ==
    /\ ready = "pending"
    /\ Len(pendingAdapterEvents) = 2
    /\ pendingAdapterEvents[1].type = "set"
    /\ backend[pendingAdapterEvents[1].key] # Null

\* C10: the buffered events are replayed in the order they arrived, and the
\* handling of one (its backend re-read and state assignment included) ends
\* before the handling of the next starts: the replay log reads start 1, end 1,
\* start 2, end 2, ...
C10_ReplayInOrder ==
    \A p \in DOMAIN replayLog :
        replayLog[p] = [at |-> IF p % 2 = 1 THEN "start" ELSE "end", id |-> (p + 1) \div 2]

C10_Witness_TwoReplayed ==
    /\ Len(replayLog) = 4
    /\ lastHandled.src = "replay"
    /\ lastHandled.id = 2
    /\ lastHandled.outcome = "read_applied"
    /\ eventReads = {}

\* hydrate() has returned
HydrationOver == hydPc \in {"then", "replay", "done"}

\* C2: when every backend read hydration issues completes, the readiness signal
\* eventually settles; while it is unsettled hydration is awaiting a read or is
\* about to resume from one.
C2_ReadinessEventuallySettles ==
    /\ <>(ready # "pending")
    /\ [](ready = "pending" => hydPc \in {"read", "apply", "threw"})
    /\ [](hydPc \in {"apply", "threw"} => ENABLED HydrateApply)

C2_Witness_SettledAfterFailedRead ==
    /\ ready = "resolved"
    /\ \E u \in DOMAIN hydReads : hydReads[u].failed
    /\ \E u \in DOMAIN hydReads : ~hydReads[u].failed /\ hydReads[u].raw # Null

\* Reading, validating or merging the unit u threw during hydration: the read
\* failed, or the configured validate, the merge or the slice's reducer throws on
\* the value read.
UnitThrew(u) ==
    /\ u \in DOMAIN hydReads
    /\ \/ hydReads[u].failed
       \/ /\ hydReads[u].raw # Null
          /\ \/ validatedThrows(cfg.strategy, hydReads[u].raw[1])
             \/ /\ validated(cfg.strategy, hydReads[u].raw[1]).ok
                /\ IF cfg.strategy = "entire"
                   THEN mergeThrows(validated(cfg.strategy, hydReads[u].raw[1]).value)
                   ELSE applyThrows(validated(cfg.strategy, hydReads[u].raw[1]).value)

\* the part of a hydration result that belongs to unit u
UnitPart(u, state) == IF cfg.strategy = "entire" THEN state ELSE select(u, state)

\* what hydrating the unit u alone, from the initial state, gives
UnitAlone(u) ==
    IF cfg.strategy = "entire" THEN hydrateEntire(hydReads[u])
    ELSE hydrateSlices(u, hydReads[u], InitialState)

\* C4: a unit whose read, validation or merge threw has status `error`, keeps its
\* initial value and is reported to the error sink; every other unit has the
\* status and the value it has when hydrated alone; and readiness resolves
\* (unless the assignment to the container throws).
C4_UnitErrorIsContained ==
    (HydrationOver /\ (\E u \in DOMAIN hydReads : UnitThrew(u))) =>
        /\ \A u \in DOMAIN hydReads :
             IF UnitThrew(u)
             THEN /\ hydrationStatus.byKey[u] = "error"
                  /\ UnitPart(u, hydNext) = UnitPart(u, InitialState)
                  /\ [from |-> "hydrate", unit |-> u] \in Range(errorSink)
             ELSE /\ hydrationStatus.byKey[u] = UnitAlone(u).status
                  /\ hydrationStatus.byKey[u] \in {"hydrated", "discarded"}
                  /\ UnitPart(u, hydNext) = UnitPart(u, UnitAlone(u).state)
                  /\ [from |-> "hydrate", unit |-> u] \notin Range(errorSink)
        /\ DOMAIN hydReads = Range(UnitNames(cfg.strategy))
        /\ ~cfg.setStateThrows => (ready = "resolved" /\ storeState = hydNext)

C4_Witness_OneSliceFailsOtherHydrates ==
    /\ HydrationOver
    /\ cfg.strategy = "slices"
    /\ UnitThrew("b") /\ ~hydReads["b"].failed
    /\ hydrationStatus.byKey["a"] = "hydrated"
    /\ storeState = [a |-> 1, b |-> 0, c |-> 0]
    /\ ready = "resolved"

\* C5: when assigning the hydration result to the container throws, the
\* exception goes to the error sink and the readiness signal is rejected, and
\* never resolved.
C5_ApplyErrorRejectsReady ==
    (HydrationOver /\ cfg.setStateThrows /\ ~shouldDiscardThrows(cfg.discard)) =>
        /\ ready = "rejected"
        /\ readyCalls = <<"rejected">>
        /\ ~isReady
        /\ errorSink # <<>>
        /\ errorSink[Len(errorSink)] = [from |-> "hydrate", unit |-> "apply"]

C5_Witness_RejectedByApply ==
    /\ HydrationOver
    /\ cfg.setStateThrows
    /\ cfg.discard = "no"
    /\ ready = "rejected"
    /\ hydrationStatus.byKey["entire"] = "hydrated"

\* C6: a set or remove event for a unit's key is ignored, without backend read
\* and without state change, exactly when the key's ledger entry is younger than
\* the suppression window at the time the event is handled; with an entry at
\* least as old as the window, or none, the handler goes on to re-read (set) or
\* to assign (remove).  A clear event is applied whatever the ledger holds.
C6_EchoSuppressedWithinWindow ==
    /\ []((lastHandled.id # 0 /\ lastHandled.type # "clear"
             /\ lastHandled.key \in DOMAIN persistenceUnits) =>
            ((lastHandled.outcome = "ignored") <=>
                (lastHandled.age # -1 /\ lastHandled.age < recentWriteWindowMs)))
    /\ []((lastHandled.id # 0 /\ lastHandled.type = "remove"
             /\ lastHandled.key \in DOMAIN persistenceUnits) =>
            lastHandled.outcome \in {"ignored", "applied"})
    /\ []((lastHandled.id # 0 /\ lastHandled.type = "clear") =>
            lastHandled.outcome = "applied")
    /\ [][(lastHandled' # lastHandled /\ lastHandled'.outcome = "ignored") =>
            /\ storeState' = storeState
            /\ eventReads' = eventReads
            /\ engineAssigns' = engineAssigns]_vars

C6_Witness_IgnoredInsideIndexWindow ==
    /\ cfg.name = "indexdb"
    /\ lastHandled.id # 0
    /\ lastHandled.type = "set"
    /\ lastHandled.age = RecentWriteWindowDefaultMs
    /\ lastHandled.outcome = "ignored"
    /\ storeState # InitialState

\* C8: with pacing disabled nothing stays queued and no timer is armed: the
\* writes issued so far are, one for one and in order, the entries the user's
\* changes enqueued, each issued within the setState call of its change.
C8_PacingOffWritesEveryChange ==
    ~cfg.pacer.enabled =>
        /\ queuedPayloads = <<>>
        /\ pacerTimer = -1
        /\ Len(writeLog) = Len(changes)
        /\ \A i \in DOMAIN changes :
             /\ writeLog[i] = [key |-> changes[i].key, payload |-> changes[i].payload]
             /\ changes[i].writes = i - 1

C8_Witness_TwoWritesOneInstant ==
    /\ ~cfg.pacer.enabled
    /\ Len(writeLog) = 2
    /\ writeLog[1].key = writeLog[2].key
    /\ writeLog[1].payload # writeLog[2].payload
    /\ changes[1].at = changes[2].at
    /\ inflightWrites = {1, 2}

\* the positions of the writes and of the enqueued changes that are about key k
WritesTo(k) == {i \in DOMAIN writeLog : writeLog[i].key = k}
ChangesTo(k) == {j \in DOMAIN changes : changes[j].key = k}
ChangedKeys ==
    {changes[j].key : j \in DOMAIN changes} \cup {writeLog[i].key : i \in DOMAIN writeLog}
Highest(S) == CHOOSE x \in S : \A y \in S : y <= x
Lowest(S) == CHOOSE x \in S : \A y \in S : x <= y

\* The changes to k enqueued between two flushes share the number of writes
\* issued before them: a flush group of k is named by that number.
FlushGroups(k) == {changes[j].writes : j \in ChangesTo(k)}
LastOfGroup(k, g) == changes[Highest({j \in ChangesTo(k) : changes[j].writes = g})].payload
GroupEnd(k, g) == Lowest({h \in FlushGroups(k) : h > g} \cup {Len(writeLog)})
GroupWrites(k, g) == {i \in WritesTo(k) : g < i /\ i <= GroupEnd(k, g)}

TrailingOnly ==
    cfg.pacer.enabled /\ ~cfg.pacer.leading /\ cfg.pacer.trailing /\ cfg.pacer.wait > 0

\* C7 (amended): under a trailing-only debounce with a positive wait, the changes
\* to one key enqueued between two flushes result in exactly one write for that
\* key, carrying the payload of the last of them; until the flush the queue holds
\* one entry per key with that payload and the timer is due one wait after the
\* last enqueued change; every write follows a change to its key.
C7_TrailingDebounceCoalesces ==
    TrailingOnly =>
        /\ \A k \in ChangedKeys :
             /\ \A i \in WritesTo(k) : \E g \in FlushGroups(k) : g < i
             /\ \A g \in FlushGroups(k) :
                  IF g < Len(writeLog)
                  THEN /\ Cardinality(GroupWrites(k, g)) = 1
                       /\ \A i \in GroupWrites(k, g) :
                            writeLog[i].payload = LastOfGroup(k, g)
                  ELSE /\ Cardinality({q \in DOMAIN queuedPayloads :
                                          queuedPayloads[q].key = k}) = 1
                       /\ \A q \in DOMAIN queuedPayloads :
                            queuedPayloads[q].key = k =>
                                queuedPayloads[q].payload = LastOfGroup(k, g)
                       /\ pacerTimer = changes[Len(changes)].at + cfg.pacer.wait
        /\ \A q \in DOMAIN queuedPayloads :
             Len(writeLog) \in FlushGroups(queuedPayloads[q].key)
        /\ pacerTimer = -1 => queuedPayloads = <<>>

C7_Witness_BurstAcrossTicksOneWrite ==
    /\ TrailingOnly
    /\ Len(changes) = 2
    /\ changes[1].key = changes[2].key
    /\ changes[1].at < changes[2].at
    /\ changes[1].payload # changes[2].payload
    /\ Len(writeLog) = 1
    /\ writeLog[1].payload = changes[2].payload
    /\ pacerTimer = -1

\* A burst, as the claim defines it: the changes to k each of which follows the
\* previous change to k by less than the wait.
Previous(k, j) == Highest({p \in ChangesTo(k) : p < j})
BurstStarts(k) ==
    {j \in ChangesTo(k) :
        \/ \A p \in ChangesTo(k) : p >= j
        \/ changes[j].at - changes[Previous(k, j)].at >= cfg.pacer.wait}
BurstLast(k, j) ==
    Highest({l \in ChangesTo(k) : l >= j /\ \A m \in BurstStarts(k) : ~(j < m /\ m <= l)})
Rank(S, x) == Cardinality({y \in S : y <= x})

\* C7 as stated: under any debounced policy with a positive wait a burst never
\* has more than one write, and once no flush is pending every burst has had
\* exactly one, carrying the payload of the burst's last change.
C7_AnyDebounceOneWritePerBurst ==
    (cfg.pacer.enabled /\ cfg.pacer.wait > 0) =>
        \A k \in ChangedKeys :
            /\ Cardinality(WritesTo(k)) <= Cardinality(BurstStarts(k))
            /\ pacerTimer = -1 =>
                 /\ Cardinality(WritesTo(k)) = Cardinality(BurstStarts(k))
                 /\ \A i \in WritesTo(k) : \A j \in BurstStarts(k) :
                      Rank(WritesTo(k), i) = Rank(BurstStarts(k), j) =>
                          writeLog[i].payload = changes[BurstLast(k, j)].payload

\* C11: a flush writes every entry it snapshots; a write that fails is reported
\* to the error sink and nothing else happens: no entry is queued again, no
\* write is issued again, no timer is armed, and the other writes in flight stay
\* in flight; a write that succeeds is stored and entered in the ledger whatever
\* failed before it.
C11_FailedWriteIsReportedAndDropped ==
    /\ [][(queuedPayloads # <<>> /\ queuedPayloads' = <<>>) =>
            /\ writeLog' = writeLog \o queuedPayloads
            /\ inflightWrites' =
                 inflightWrites \cup (Len(writeLog) + 1 .. Len(writeLog) + Len(queuedPayloads))]_vars
    /\ [][budget'.faults # budget.faults =>
            \E i \in inflightWrites :
                /\ inflightWrites' = inflightWrites \ {i}
                /\ errorSink' = Append(errorSink, [from |-> "flush", unit |-> writeLog[i].key])
                /\ queuedPayloads' = queuedPayloads
                /\ writeLog' = writeLog
                /\ pacerTimer' = pacerTimer
                /\ backend' = backend
                /\ recentWrites' = recentWrites]_vars
    /\ [][(inflightWrites' # inflightWrites /\ writeLog' = writeLog
             /\ budget'.faults = budget.faults) =>
            \E i \in inflightWrites :
                /\ inflightWrites' = inflightWrites \ {i}
                /\ backend'[writeLog[i].key] = Some(writeLog[i].payload)
                /\ recentWrites'[writeLog[i].key] = now
                /\ errorSink' = errorSink]_vars

C11_Witness_OneFailsOtherStored ==
    /\ cfg.strategy = "slices"
    /\ Len(writeLog) = 2
    /\ Len(changes) = 2
    /\ changes[1].writes = 0 /\ changes[2].writes = 0
    /\ writeLog[1].key # writeLog[2].key
    /\ errorSink = <<[from |-> "flush", unit |-> writeLog[1].key]>>
    /\ backend[writeLog[2].key] = Some(writeLog[2].payload)
    /\ backend[writeLog[1].key] # Some(writeLog[1].payload)
    /\ inflightWrites = {}
    /\ queuedPayloads = <<>>

\* C12: when discardPersisted is true, as a flag or as the result of the
\* predicate, hydration reads nothing from the backend, every unit's status is
\* `discarded`, and at readiness the state is the initial state.
C12_DiscardSkipsReads ==
    cfg.discard \in {"static_true", "predicate_true"} =>
        /\ hydReads = <<>>
        /\ hydPc # "read"
        /\ \A u \in Range(UnitNames(cfg.strategy)) : hydrationStatus.byKey[u] = "discarded"
        /\ ready = "resolved" =>
             /\ storeState = InitialState
             /\ hydrationStatus.overall = "discarded"
        /\ (HydrationOver /\ ~cfg.setStateThrows) => ready = "resolved"

C12_Witness_PredicateDiscardsSlices ==
    /\ cfg.discard = "predicate_true"
    /\ cfg.strategy = "slices"
    /\ ready = "resolved"
    /\ \A k \in DOMAIN backend : backend[k] = Some(1)
    /\ storeState = InitialState

\* the value hydration read for unit u, its tag, and the value the configured
\* validate hands on: the X of {ok:true, value: X} for tag 3, the raw value otherwise
RawOf(u) == hydReads[u].raw[1]
TagOf(u) == Tag(cfg.strategy, RawOf(u))
AcceptedInput(u) ==
    IF cfg.validate = "structured" /\ TagOf(u) = 3
    THEN Retag(cfg.strategy, RawOf(u), 1)
    ELSE RawOf(u)

\* C13: for a unit whose read returned a value and nothing threw, a validation
\* result of false or {ok:false} gives status `discarded` and the initial value;
\* any other result gives status `hydrated`, and what is merged (entire) or
\* applied (slice) is X for {ok:true, value: X} and the raw value for true,
\* for {ok:true} and without a validate function.
C13_ValidationDecidesInput ==
    HydrationOver =>
        \A u \in DOMAIN hydReads :
            (~hydReads[u].failed /\ hydReads[u].raw # Null /\ ~UnitThrew(u)) =>
                IF cfg.validate # "none" /\ TagOf(u) = 2
                THEN /\ hydrationStatus.byKey[u] = "discarded"
                     /\ UnitPart(u, hydNext) = UnitPart(u, InitialState)
                ELSE /\ hydrationStatus.byKey[u] = "hydrated"
                     /\ IF cfg.strategy = "entire"
                        THEN hydNext = merge(InitialState, AcceptedInput(u))
                        ELSE select(u, hydNext) = AcceptedInput(u)

C13_Witness_TransformedAndRejected ==
    /\ HydrationOver
    /\ cfg.strategy = "slices"
    /\ cfg.validate = "structured"
    /\ "a" \in DOMAIN hydReads /\ "b" \in DOMAIN hydReads
    /\ hydReads["a"].raw = Some(3)
    /\ hydReads["b"].raw = Some(2)
    /\ storeState = [a |-> 1, b |-> 0, c |-> 0]
    /\ hydrationStatus.byKey = [a |-> "hydrated", b |-> "discarded"]

\* The structural deep merge as the claim words it: two mappings merge key by
\* key, recursively for the keys of both; anything else, an array included, is
\* replaced by the persisted side.
RECURSIVE StructuralMerge(_, _)
StructuralMerge(initial, persisted) ==
    IF initial.type = "object" /\ persisted.type = "object"
    THEN Obj([k \in DOMAIN initial.fields \cup DOMAIN persisted.fields |->
                IF k \in DOMAIN initial.fields /\ k \in DOMAIN persisted.fields
                THEN StructuralMerge(initial.fields[k], persisted.fields[k])
                ELSE IF k \in DOMAIN persisted.fields THEN persisted.fields[k]
                ELSE initial.fields[k]])
    ELSE persisted

\* the same on states whose fields are numbers
Override(initial, persisted) ==
    [k \in DOMAIN initial \cup DOMAIN persisted |->
        IF k \in DOMAIN persisted THEN persisted[k] ELSE initial[k]]

\* C14: under the entire strategy, hydrating from an accepted value P gives, as
\* the state at readiness, the caller's merge of {initial, P} when one is
\* configured and the structural deep merge of the initial state and P otherwise.
C14_EntireHydratesToMerge ==
    (HydrationOver /\ cfg.strategy = "entire" /\ "entire" \in DOMAIN hydReads
       /\ ~hydReads["entire"].failed /\ hydReads["entire"].raw # Null
       /\ ~UnitThrew("entire") /\ ~(cfg.validate # "none" /\ TagOf("entire") = 2)) =>
        /\ hydNext = IF cfg.merge = "custom"
                     THEN customMerge(cfg.initialState, AcceptedInput("entire"))
                     ELSE IF cfg.json
                     THEN StructuralMerge(cfg.initialState, AcceptedInput("entire"))
                     ELSE Override(cfg.initialState, AcceptedInput("entire"))
        /\ ready = "resolved" => storeState = hydNext
        /\ hydrationStatus.byKey["entire"] = "hydrated"

C14_Witness_NestedObjectsAndArrays ==
    /\ cfg.initialState = TestInitialState
    /\ hydReads = [entire |-> [failed |-> FALSE,
                               raw |-> Some(Obj([arr |-> Arr(<<Num(9)>>),
                                                 b |-> Obj([c |-> Num(20)])]))]]
    /\ ready = "resolved"
    /\ storeState = Obj([a |-> Num(1), arr |-> Arr(<<Num(9)>>),
                         b |-> Obj([c |-> Num(20), d |-> Num(3)])])

\* the step handles a new event of this type, live or in the replay
Handles(type) == lastHandled'.id # lastHandled.id /\ lastHandled'.type = type

\* C15: once a clear event has been processed, which happens only after
\* readiness, the state is the original initial state under both strategies,
\* whatever the state was and the backend holds, and the handler issued no
\* backend read.
C15_ClearRestoresInitialState ==
    [][Handles("clear") =>
         /\ isReady
         /\ lastHandled'.outcome = "applied"
         /\ storeState' = cfg.initialState
         /\ eventReads' = eventReads
         /\ hydReads' = hydReads]_vars

C15_Witness_ClearAfterUserChangeWritten ==
    /\ lastHandled.id # 0
    /\ lastHandled.type = "clear"
    /\ lastHandled.outcome = "applied"
    /\ cfg.strategy = "slices"
    /\ backend[UnitKey("slices", "b")] = Some(2)
    /\ storeState = cfg.initialState

\* C16: a remove event that is handled resets the unit its key names and nothing
\* else: the entire unit's key gives the initial state; a slice unit's key gives
\* apply(current state, select(initial state)) of that slice, and every other
\* slice selects from the new state what it selected from the old one.
C16_RemoveResetsItsUnitOnly ==
    [][(Handles("remove") /\ lastHandled'.outcome = "applied") =>
         /\ lastHandled'.key \in DOMAIN persistenceUnits
         /\ LET unit == persistenceUnits[lastHandled'.key]
            IN IF unit.kind = "entire" THEN storeState' = cfg.initialState
               ELSE /\ storeState' = [storeState EXCEPT
                                        ![unit.sliceKey] = cfg.initialState[unit.sliceKey]]
                    /\ \A i \in 1..Len(Slices) :
                          Slices[i] # unit.sliceKey =>
                             select(Slices[i], storeState') = select(Slices[i], storeState)
         /\ eventReads' = eventReads]_vars

C16_Witness_SliceRemovedOtherKept ==
    /\ lastHandled.id # 0
    /\ lastHandled.type = "remove"
    /\ lastHandled.key = UnitKey("slices", "b")
    /\ lastHandled.outcome = "applied"
    /\ cfg.strategy = "slices"
    /\ hydReads["a"].raw = Some(1) /\ hydReads["b"].raw = Some(1)
    /\ storeState = [a |-> 1, b |-> 0, c |-> 2]

\* the step completes the backend read of a set event
ReadCompletes(task) == task \in eventReads /\ eventReads' = eventReads \ {task}

\* C17: a set event on the entire unit's key that is handled reads the backend
\* again; when the read completes with null the state is unchanged, and
\* otherwise the state becomes the merge of the initial state and the value read,
\* whatever the live state was.
C17_EntireSetMergesOntoInitial ==
    [][/\ (Handles("set") /\ cfg.strategy = "entire"
             /\ lastHandled'.key \in DOMAIN persistenceUnits
             /\ lastHandled'.outcome # "ignored") =>
            /\ lastHandled'.outcome = "read"
            /\ storeState' = storeState
            /\ \E task \in eventReads' \ eventReads :
                  task.id = lastHandled'.id /\ task.key = lastHandled'.key
       /\ \A task \in eventReads :
            (ReadCompletes(task) /\ cfg.strategy = "entire") =>
               storeState' = IF backend[task.key] = Null THEN storeState
                             ELSE IF cfg.merge = "custom"
                             THEN customMerge(cfg.initialState, backend[task.key][1])
                             ELSE Override(cfg.initialState, backend[task.key][1])]_vars

C17_Witness_LocalChangeReverted ==
    /\ lastHandled.id # 0
    /\ lastHandled.type = "set"
    /\ lastHandled.outcome = "read_applied"
    /\ cfg.strategy = "entire" /\ cfg.merge = "deep"
    /\ Len(changes) = 1 /\ changes[1].payload.c = 2
    /\ backend[UnitKey("entire", "entire")] = Some([a |-> 1])
    /\ storeState = [a |-> 1, b |-> 0, c |-> 0]

\* C18: a set event on a slice unit's key that is handled reads the backend
\* again; when the read completes with null the state is unchanged, and
\* otherwise the state becomes the state of that moment with the slice's field
\* at the value read, so changes the user made while the read was outstanding
\* stay in every other field.
C18_SliceSetAppliesOntoLiveState ==
    [][/\ (Handles("set") /\ cfg.strategy = "slices"
             /\ lastHandled'.key \in DOMAIN persistenceUnits
             /\ lastHandled'.outcome # "ignored") =>
            /\ lastHandled'.outcome = "read"
            /\ storeState' = storeState
            /\ \E task \in eventReads' \ eventReads :
                  task.id = lastHandled'.id /\ task.key = lastHandled'.key
       /\ \A task \in eventReads :
            (ReadCompletes(task) /\ cfg.strategy = "slices") =>
               storeState' = IF backend[task.key] = Null THEN storeState
                             ELSE [storeState EXCEPT
                                     ![persistenceUnits[task.key].sliceKey] =
                                         backend[task.key][1]]]_vars

C18_Witness_ChangeDuringReadKept ==
    /\ lastHandled.id # 0
    /\ lastHandled.type = "set"
    /\ lastHandled.key = UnitKey("slices", "a")
    /\ lastHandled.outcome = "read_applied"
    /\ lastHandled.during
    /\ cfg.strategy = "slices"
    /\ hydReads["b"].raw = Some(1)
    /\ storeState = [a |-> 1, b |-> 2, c |-> 0]

\* a character the slug keeps: a letter, which is lowercased, a digit, a hyphen
\* or an underscore
Kept(ch) == ch \in {"a", "A", "1", "-", "_"}

\* The display name yields a non-empty slug: it has a character that is kept, or
\* a blank between two characters that are not blanks, which becomes a hyphen.
HasSlug(name) ==
    \E i \in DOMAIN name :
        \/ Kept(name[i])
        \/ /\ name[i] = " "
           /\ \E j \in 1..(i - 1) : name[j] # " "
           /\ \E k \in (i + 1)..Len(name) : name[k] # " "

\* the store identifier is given directly or derivable from the display name
Resolvable(options) ==
    \/ options.storeId # <<>>
    \/ options.devtools.kind = "object" /\ HasSlug(options.devtools.name)

\* C19: constructing a store with a backend and without a resolvable store
\* identifier fails in the constructor: no read, write or subscription has been
\* made on the backend, hydration has not started, and none of them ever happens.
C19_UnresolvableStoreIdFailsConstruction ==
    (cfg.adapter /\ ~Resolvable(cfg)) =>
        /\ hydPc = "config_error"
        /\ ~subscribed
        /\ hydReads = <<>> /\ eventReads = {}
        /\ writeLog = <<>> /\ inflightWrites = {}
        /\ hydrationStatus.overall = "none"
        /\ ready = "none"

C19_Witness_NameWithoutSlugFails ==
    /\ cfg.adapter
    /\ cfg.storeId = <<>>
    /\ cfg.devtools = DevtoolsNamed(<<"!", " ">>)
    /\ hydPc = "config_error"

\* C20: a unit whose hydration read returned null or nothing has status
\* `hydrated`, not `discarded` or `error`, and keeps its initial value, in the
\* hydration result and in the state at readiness, under both strategies.
C20_NullReadHydratesToInitial ==
    \A u \in DOMAIN hydReads :
        (~hydReads[u].failed /\ hydReads[u].raw = Null) =>
            /\ hydrationStatus.byKey[u] = "hydrated"
            /\ UnitPart(u, hydNext) = UnitPart(u, cfg.initialState)
            /\ ready = "resolved" => UnitPart(u, storeState) = UnitPart(u, cfg.initialState)

C20_Witness_MissingSliceNextToStoredOne ==
    /\ cfg.strategy = "slices"
    /\ ready = "resolved"
    /\ DOMAIN hydReads = {"a", "b"}
    /\ hydReads["a"] = [failed |-> FALSE, raw |-> Null]
    /\ hydReads["b"] = [failed |-> FALSE, raw |-> Some(1)]
    /\ hydrationStatus.byKey = [a |-> "hydrated", b |-> "hydrated"]
    /\ storeState = [a |-> 0, b |-> 1, c |-> 0]

\* the units of the store: the entire unit, or one per configured slice
Units == Range(UnitNames(cfg.strategy))

C22_OnlyApplyRejectsReady ==
    ready = "rejected" =>
        /\ cfg.setStateThrows
        /\ [from |-> "hydrate", unit |-> "apply"] \in Range(errorSink)

C22_Witness_DiscardPredicateRejects ==
    /\ cfg.discard = "predicate_throws"
    /\ ~cfg.setStateThrows
    /\ ready = "rejected"
    /\ readyCalls = <<"rejected">>
    /\ hydReads = <<>>
    /\ engineAssigns = 0
    /\ hydrationStatus.overall = "error"

\* C23: a notification the backend emits for a write the scheduler issued is
\* never applied when it is delivered inside the suppression window of that
\* write, the time before the write's completion is observed included: it
\* causes no backend read and no assignment.
C23_OwnWriteNotificationIgnored ==
    [][(landed' # landed /\ landed' # {} /\ lastHandled'.id # lastHandled.id) =>
         /\ lastHandled'.outcome = "ignored"
         /\ eventReads' = eventReads
         /\ storeState' = storeState]_vars

C23_Witness_OwnWriteReadBack ==
    /\ lastHandled.id # 0
    /\ lastHandled.type = "set"
    /\ lastHandled.age = -1
    /\ lastHandled.outcome = "read_applied"
    /\ landed # {}
    /\ \E i \in landed : writeLog[i].key = lastHandled.key
    /\ engineAssigns = 2

\* C24: before the readiness signal has settled the scheduler does nothing: no
\* entry is in the pending queue, no timer is armed and no backend write has
\* been issued, also when the user changes the state during hydration.
C24_NoPersistenceBeforeReady ==
    ready = "pending" =>
        /\ queuedPayloads = <<>>
        /\ pacerTimer = -1
        /\ writeLog = <<>>

C24_Witness_WriteIssuedDuringHydration ==
    /\ ready = "pending"
    /\ hydPc = "read"
    /\ hydReads = <<>>
    /\ cfg.strategy = "entire"
    /\ Len(writeLog) = 1
    /\ writeLog[1].key = UnitKey("entire", "entire")
    /\ inflightWrites = {1}

\* the fields of the state that some slice's reducer writes
SliceFields == Range(Slices)

\* C25 (amended): under the slice strategy a clear event assigns the state
\* obtained by folding each slice's projection of the initial state, in
\* configured order, onto the initial state: the fields the slices write and the
\* fields no slice writes all have their initial values.
C25_SliceClearFoldsOntoInitial ==
    [][(Handles("clear") /\ cfg.strategy = "slices" /\ lastHandled'.outcome = "applied") =>
         /\ storeState' = apply(Slices[2],
                                apply(Slices[1], cfg.initialState,
                                      select(Slices[1], cfg.initialState)),
                                select(Slices[2], cfg.initialState))
         /\ \A f \in Fields \ SliceFields : storeState'[f] = cfg.initialState[f]]_vars

\* C25: the fold starts from the live state, so what no slice writes keeps its
\* current value.
C25_SliceClearFoldsOntoLive ==
    [][(Handles("clear") /\ cfg.strategy = "slices" /\ lastHandled'.outcome = "applied") =>
         /\ storeState' = apply(Slices[2],
                                apply(Slices[1], storeState,
                                      select(Slices[1], cfg.initialState)),
                                select(Slices[2], cfg.initialState))
         /\ \A f \in Fields \ SliceFields : storeState'[f] = storeState[f]]_vars

C25_Witness_UncoveredFieldReset ==
    /\ cfg.strategy = "slices"
    /\ lastHandled.id # 0
    /\ lastHandled.type = "clear"
    /\ lastHandled.outcome = "applied"
    /\ hydReads # <<>> /\ budget.user = 1 /\ changes = <<>>
    /\ hydReads["a"].raw = Some(1)
    /\ storeState = [a |-> 0, b |-> 0, c |-> 0]

\* C26: the provenance flag suppressPersist is clear in every state between two
\* steps of the engine, that is whenever control is outside applyState or
\* applyExternalState, whichever way the assignment was left, the throwing
\* way included.
C26_FlagClearOutsideAssignment == suppressPersist = FALSE

C26_Witness_FlagLeftSetByThrow ==
    /\ cfg.setStateThrows
    /\ hydPc = "done"
    /\ engineAssigns = 1
    /\ ready = "rejected"
    /\ suppressPersist = TRUE

\* C27: with a pacer that sets maxWait, a change enqueued at time t has had a
\* write of its key issued after it in every state whose clock is past
\* t + maxWait, however closely further changes follow one another.
FlushedAfter(j) ==
    \E i \in DOMAIN writeLog : i > changes[j].writes /\ writeLog[i].key = changes[j].key

C27_MaxWaitBoundsPendingTime ==
    \A j \in DOMAIN changes :
        now > changes[j].at + cfg.pacer.maxWait => FlushedAfter(j)

C27_Witness_PendingPastMaxWait ==
    /\ Len(changes) = 2
    /\ changes[1].key = changes[2].key
    /\ changes[2].at - changes[1].at < cfg.pacer.wait
    /\ now > changes[1].at + cfg.pacer.maxWait
    /\ writeLog = <<>>
    /\ pacerTimer = changes[2].at + cfg.pacer.wait
    /\ pacerTimer >= now

\* the step completes the backend read of a set event with a failure
ReadFails(task) == ReadCompletes(task) /\ budget'.faults > budget.faults

\* C28: when the backend read issued for a set event fails, no rejection is left
\* unhandled and, if the event was being replayed, the events still waiting in
\* the replay queue stay there to be replayed.
C28_FailedEventReadContained ==
    [][\A task \in eventReads :
          ReadFails(task) =>
             /\ unhandledRejections' = unhandledRejections
             /\ task.src = "replay" => replayQueue' = replayQueue]_vars

C28_Witness_ReplayAbortedByFailedRead ==
    /\ budget.events = 2
    /\ budget.faults = 1
    /\ lastHandled.id = 1
    /\ lastHandled.type = "set"
    /\ lastHandled.outcome = "read_threw"
    /\ unhandledRejections = 1
    /\ hydPc = "done"
    /\ pendingAdapterEvents = <<>>
    /\ replayQueue = <<>>
    /\ replayLog = <<[at |-> "start", id |-> 1], [at |-> "end", id |-> 1]>>

\* the event the step handles is keyless or keyed outside this store's units
ForeignKey(key) == key = NoKey \/ key \notin DOMAIN persistenceUnits

\* C29: handling a set or remove event whose key is absent or is the key of no
\* persistence unit of this store, live or in the replay, has no effect: no
\* backend read is issued, no state is assigned, and the pending queue, the
\* writes issued and the ledger stay as they were.
C29_ForeignEventChangesNothing ==
    [][((Handles("set") \/ Handles("remove")) /\ ForeignKey(lastHandled'.key)) =>
          /\ lastHandled'.outcome = "ignored"
          /\ eventReads' = eventReads
          /\ storeState' = storeState
          /\ engineAssigns' = engineAssigns
          /\ queuedPayloads' = queuedPayloads
          /\ pacerTimer' = pacerTimer
          /\ writeLog' = writeLog
          /\ recentWrites' = recentWrites]_vars

C29_Witness_ForeignRemoveWhilePending ==
    /\ lastHandled.id # 0
    /\ lastHandled.type = "remove"
    /\ lastHandled.key = OtherKey
    /\ lastHandled.outcome = "ignored"
    /\ isReady
    /\ budget.user = 2
    /\ storeState # cfg.initialState
    /\ queuedPayloads # <<>>
    /\ \E k \in DOMAIN recentWrites : recentWrites[k] # 0

\* the overall status the per-unit statuses aggregate to
Precedence(byKey) ==
    IF \E k \in DOMAIN byKey : byKey[k] = "error" THEN "error"
    ELSE IF \E k \in DOMAIN byKey : byKey[k] = "discarded" THEN "discarded"
    ELSE "hydrated"

\* C30: with an adapter, once hydrate() has finalized (the state was applied and
\* ready resolved) the overall status is error if some unit's status is error,
\* else discarded if some unit's is discarded, else hydrated; without an adapter
\* the overall status is not_configured in every state.
C30_OverallStatusPrecedence ==
    /\ (cfg.adapter /\ ready = "resolved") =>
          hydrationStatus.overall = Precedence(hydrationStatus.byKey)
    /\ ~cfg.adapter => hydrationStatus.overall = "not_configured"

C30_Witness_ErrorOverDiscarded ==
    /\ cfg.adapter
    /\ ready = "resolved"
    /\ DOMAIN hydrationStatus.byKey = {"a", "b"}
    /\ hydrationStatus.byKey["a"] = "discarded"
    /\ hydrationStatus.byKey["b"] = "error"
    /\ hydrationStatus.overall = "error"

\* C31: in every state where ready is resolved after a hydration, the hydrated
\* state has been assigned to the container by the one engine assignment of
\* hydrate(), and neither the overall status nor any unit's status is pending.
C31_ResolvedMeansAppliedAndFinal ==
    (cfg.adapter /\ ready = "resolved") =>
        /\ engineAssigns = 1
        /\ storeState = hydNext
        /\ hydrationStatus.overall # "pending"
        /\ \A u \in DOMAIN hydrationStatus.byKey : hydrationStatus.byKey[u] # "pending"

C31_Witness_ResolvedWithStoredSlice ==
    /\ cfg.strategy = "slices"
    /\ ready = "resolved"
    /\ hydPc = "then"
    /\ storeState # cfg.initialState
    /\ storeState = hydNext
    /\ hydrationStatus.byKey["a"] = "hydrated"
    /\ hydrationStatus.byKey["b"] = "error"
    /\ hydrationStatus.overall = "error"

\* hydration accepted the value it read for slice u: the read returned a value,
\* nothing threw on it and validation did not reject it
Accepted(u) ==
    /\ u \in DOMAIN hydReads
    /\ hydReads[u].raw # Null
    /\ ~UnitThrew(u)
    /\ ~(cfg.validate # "none" /\ TagOf(u) = 2)

\* the left fold of the accepted slice values from slice i on
RECURSIVE SliceFold(_, _)
SliceFold(i, state) ==
    IF i > Len(Slices) THEN state
    ELSE SliceFold(i + 1, IF Accepted(Slices[i])
                          THEN apply(Slices[i], state, AcceptedInput(Slices[i]))
                          ELSE state)

\* C32: under the slice strategy the slices are read in configured order, the
\* running state of hydration is the left fold of the accepted values read so
\* far through their reducers from the initial state, and the state at readiness
\* is that fold over all slices; a missing, rejected or failed slice contributes
\* nothing.
C32_SlicesFoldInOrder ==
    cfg.strategy = "slices" =>
        /\ \E n \in 0..Len(Slices) : DOMAIN hydReads = {Slices[i] : i \in 1..n}
        /\ hydNext = SliceFold(1, cfg.initialState)
        /\ ready = "resolved" => storeState = SliceFold(1, cfg.initialState)

C32_Witness_FailedSliceBeforeAcceptedOne ==
    /\ cfg.strategy = "slices"
    /\ cfg.validate = "structured"
    /\ ready = "resolved"
    /\ DOMAIN hydReads = {"a", "b"}
    /\ hydReads["a"].failed
    /\ hydReads["b"].raw = Some(3)
    /\ storeState = [a |-> 0, b |-> 1, c |-> 0]

\* the step is a user state change, and what it enqueued
UserChanges == budget'.user = budget.user + 1
Enqueued == [j \in 1..(Len(changes') - Len(changes)) |->
               [key |-> changes'[Len(changes) + j].key,
                payload |-> changes'[Len(changes) + j].payload]]
ChangedSlices == {i \in DOMAIN Slices : select(Slices[i], storeState) # select(Slices[i], storeState')}

EnqueuedKeys == {changes[j].key : j \in DOMAIN changes}
LastEnqueued(k) == changes[Highest(ChangesTo(k))].payload

\* C34: under the default pacing policy, when every armed timeout runs and
\* every write completes successfully, from some point on the pending queue is empty, no
\* write is in flight and, for every key that was enqueued, a write carrying the
\* last payload enqueued for that key has been issued.
C34_QueueDrains ==
    <>[]((cfg.pacer = PacerDefault /\ budget.faults = 0) =>
            /\ queuedPayloads = <<>>
            /\ pacerTimer = -1
            /\ inflightWrites = {}
            /\ \A k \in EnqueuedKeys :
                  \E i \in DOMAIN writeLog :
                     writeLog[i].key = k /\ writeLog[i].payload = LastEnqueued(k))

C34_Witness_DrainedAfterTwoChanges ==
    /\ cfg.pacer = PacerDefault
    /\ Len(changes) = 2
    /\ changes[1].key = changes[2].key
    /\ changes[1].payload # changes[2].payload
    /\ queuedPayloads = <<>>
    /\ inflightWrites = {}
    /\ Len(writeLog) = 1
    /\ writeLog[1].payload = changes[2].payload

\* the writes for key k that have completed
Completed(k) == {i \in DOMAIN writeLog \ inflightWrites : writeLog[i].key = k}

\* C35: a key has a ledger entry only if a write for it has completed; an entry
\* is created or given a new timestamp only by the step in which a write for
\* its key completes successfully, a failed write leaves the ledger as it was,
\* and no step removes an entry.
C35_LedgerEntriesFromSuccessfulWrites ==
    /\ [](\A k \in DOMAIN recentWrites : Completed(k) # {})
    /\ [][\A k \in DOMAIN recentWrites' :
            (k \notin DOMAIN recentWrites \/ recentWrites'[k] # recentWrites[k]) =>
               /\ budget'.faults = budget.faults
               /\ recentWrites'[k] = now
               /\ \E i \in inflightWrites :
                     writeLog[i].key = k /\ inflightWrites' = inflightWrites \ {i}]_vars
    /\ [][budget'.faults # budget.faults => recentWrites' = recentWrites]_vars
    /\ [][DOMAIN recentWrites \subseteq DOMAIN recentWrites']_vars

C35_Witness_FailedWriteKeepsOldEntry ==
    /\ budget.faults = 1
    /\ Len(writeLog) = 2
    /\ writeLog[1].key = writeLog[2].key
    /\ inflightWrites = {}
    /\ errorSink # <<>>
    /\ errorSink[Len(errorSink)].from = "flush"
    /\ now > 0
    /\ DOMAIN recentWrites = {writeLog[1].key}
    /\ recentWrites[writeLog[1].key] < now

\* C36: no two writes for one key are in flight together, and once every write
\* has completed successfully and nothing is pending, the backend holds under
\* each enqueued key the last payload enqueued for it.
C36_WritesPerKeyInOrder ==
    /\ \A i, j \in inflightWrites : i # j => writeLog[i].key # writeLog[j].key
    /\ (inflightWrites = {} /\ queuedPayloads = <<>> /\ budget.faults = 0) =>
          \A k \in EnqueuedKeys : backend[k] = Some(LastEnqueued(k))

C36_Witness_OlderPayloadStoredLast ==
    /\ cfg.pacer = PacerOff
    /\ Len(changes) = 2
    /\ changes[1].key = changes[2].key
    /\ changes[1].payload # changes[2].payload
    /\ Len(writeLog) = 2
    /\ inflightWrites = {}
    /\ queuedPayloads = <<>>
    /\ budget.faults = 0
    /\ backend[changes[1].key] = Some(changes[1].payload)

\* C37: events are applied in delivery order: when the backend read of a set
\* event completes and its value is assigned, no event delivered after it has
\* been applied already.
C37_EventsAppliedInArrivalOrder ==
    [][\A task \in eventReads :
          (ReadCompletes(task) /\ engineAssigns' = engineAssigns + 1) =>
             ~(/\ lastHandled.id > task.id
               /\ lastHandled.outcome \in {"applied", "read_applied"})]_vars

C37_Witness_LiveEventOvertakesReplay ==
    /\ budget.events = 2
    /\ replayLog = <<[at |-> "start", id |-> 1], [at |-> "end", id |-> 1]>>
    /\ lastHandled.id = 2
    /\ lastHandled.src = "live"
    /\ lastHandled.type = "remove"
    /\ lastHandled.outcome = "applied"
    /\ eventReads = {}
    /\ engineAssigns = 3
    /\ storeState # cfg.initialState

\* C38: no event stays in the pre-readiness buffer: once hydrate() and the
\* callback that replays the buffer have run, whether ready was resolved or
\* rejected, the buffer is empty.
C38_BufferIsEmptiedAfterHydration ==
    hydPc = "done" => pendingAdapterEvents = <<>>

C38_Witness_BufferedAfterRejection ==
    /\ hydPc = "done"
    /\ ready = "rejected"
    /\ ~isReady
    /\ replayQueue = <<>>
    /\ eventReads = {}
    /\ Len(pendingAdapterEvents) = 1
    /\ lastHandled.id = 0

\* C39: with a validate function configured, the value a set event reads from
\* the backend reaches the state only through it: a value it rejects leaves the
\* state unchanged, and any other value is merged (entire) or applied (slice) in
\* the form validation hands on.
C39_EventValuesAreValidated ==
    [][\A task \in eventReads :
          (ReadCompletes(task) /\ cfg.validate # "none" /\ backend[task.key] # Null) =>
             LET v == validated(cfg.strategy, backend[task.key][1])
             IN storeState' =
                  IF ~v.ok THEN storeState
                  ELSE IF cfg.strategy = "entire" THEN merge(cfg.initialState, v.value)
                  ELSE apply(persistenceUnits[task.key].sliceKey, storeState, v.value)]_vars

C39_Witness_RejectedValueApplied ==
    /\ cfg.validate = "boolean"
    /\ cfg.strategy = "slices"
    /\ hydrationStatus.byKey["a"] = "discarded"
    /\ backend[UnitKey("slices", "a")] = Some(2)
    /\ lastHandled.id # 0
    /\ lastHandled.type = "set"
    /\ lastHandled.outcome = "read_applied"
    /\ storeState.a = 2

\* the step settles a write and issues none
WriteSettles == inflightWrites' # inflightWrites /\ writeLog' = writeLog

\* the change j is still queued, was replaced in the queue by a later change of
\* its key, or has had its payload written
Queued(j) ==
    \E q \in DOMAIN queuedPayloads :
        queuedPayloads[q] = [key |-> changes[j].key, payload |-> changes[j].payload]
Superseded(j) ==
    \E l \in ChangesTo(changes[j].key) : l > j /\ changes[l].writes = changes[j].writes
Written(j) ==
    \E i \in DOMAIN writeLog :
        /\ i > changes[j].writes
        /\ writeLog[i] = [key |-> changes[j].key, payload |-> changes[j].payload]

\* C40: the settling of a write leaves the pending queue and the armed timer as
\* they are, so a payload enqueued while writes are in flight stays queued; and
\* in every state each enqueued payload is still queued, or was superseded by a
\* newer payload of its key, or has been written (successfully or not).
C40_PendingPayloadsSurviveFlush ==
    /\ [][WriteSettles => (queuedPayloads' = queuedPayloads /\ pacerTimer' = pacerTimer)]_vars
    /\ [](\A j \in DOMAIN changes : Queued(j) \/ Superseded(j) \/ Written(j))

C40_Witness_QueuedAcrossCompletion ==
    /\ cfg.pacer = PacerDefault
    /\ Len(changes) = 2
    /\ Len(writeLog) = 1
    /\ changes[2].writes = 1
    /\ changes[2].key = writeLog[1].key
    /\ changes[2].payload # writeLog[1].payload
    /\ inflightWrites = {}
    /\ writeLog[1].key \in DOMAIN recentWrites
    /\ Queued(2)
====
